---------------------------- MODULE Spec2Model ----------------------------
(***************************************************************************)
(* Color-scheme derivation engine of the color-analysis app: the hue       *)
(* classifier (utils/openColor), the group statistics, shade synthesizer   *)
(* and orchestration (utils/colorSchemeGenerator) and the scheme matcher.  *)
(*                                                                         *)
(* Representation.  A hexValue is a string in the code; the model numbers  *)
(* the strings: '#rrggbb' in lower case, as colord writes it, is the       *)
(* 24-bit integer r*65536 + g*256 + b, and another spelling of the same    *)
(* color (upper case, three digits) is that integer plus a multiple of     *)
(* 2^24, so that two strings are equal exactly when their numbers are.     *)
(* Parsing and formatting are the conversions between such a number and an *)
(* [r, g, b] record.  JavaScript numbers that are not integers (hues,      *)
(* chroma, mean lightness, interpolation factors) are IEEE-754 binary64    *)
(* values, computed with round to nearest even as the code computes them:  *)
(* a record [neg, m, e] stands for (-1)^neg * m * 2^e with the mantissa m  *)
(* kept in limbs, and Math.sin, Math.cos and Math.atan2 are those of V8    *)
(* (fdlibm).  An RGB Euclidean distance sqrt(n) is represented by its      *)
(* square n (Math.sqrt is strictly monotone on these integers, so every    *)
(* comparison is kept).  An optional value (T | undefined) is a sequence   *)
(* of length at most one.                                                  *)
(***************************************************************************)
EXTENDS Integers, Sequences, FiniteSets, TLC

(***************************************************************************)
(* Bounds of the model.                                                    *)
(***************************************************************************)
\* the largest number of entries of an uploaded color map, and of a grouped list
MaxColors == 2

(***************************************************************************)
(* Number representation and small helpers.                                *)
(***************************************************************************)
HueScale == 10000
PctScale == 10000

Undefined == << >>
Some(x) == << x >>
IsDefined(o) == Len(o) = 1
Get(o) == o[1]

Abs(x) == IF x < 0 THEN -x ELSE x
Min(a, b) == IF a < b THEN a ELSE b
Max(a, b) == IF a > b THEN a ELSE b

\* Math.round(n / d) for d > 0: floor(n/d + 1/2).
RoundDiv(n, d) == (2 * n + d) \div (2 * d)


\* Math.round(a * |b| / c) with the sign of b, for 0 <= a < 10^6, |b| <= 10^6 and
\* c a multiple of 1000 up to 10^6: the product is divided in two parts that
\* stay within 32 bits, and rounded once.
MulFrac(a, b, c) ==
    LET hi == a \div 1000
        lo == a % 1000
        mag == Abs(b)
        v == (hi * mag) \div (c \div 1000)
             + RoundDiv(((hi * mag) % (c \div 1000)) * 1000 + lo * mag, c)
    IN  IF b < 0 THEN -v ELSE v

RECURSIVE SumSeq(_)
SumSeq(s) == IF s = << >> THEN 0 ELSE Head(s) + SumSeq(Tail(s))

(***************************************************************************)
(* JavaScript numbers: IEEE 754 binary64, round to nearest, ties to even.  *)
(* The numbers of the engine that are not integers (mean hues, zone hues,  *)
(* chroma, interpolation factors) are doubles, and every operation of the  *)
(* code on them is the operation below on their bits.                      *)
(*                                                                         *)
(* A natural number is the sequence of its digits in base LimbBase, least  *)
(* significant first.  A double is [neg, m, e], standing for               *)
(* (-1)^neg * m * 2^e with 2^52 <= m < 2^53 in MantissaLimbs digits; zero  *)
(* has no digits and exponent 0 (the sign of zero is not kept), and NaN    *)
(* has no digits and the exponent above every finite double.  The exponent *)
(* range is not limited otherwise: no value of the code comes near         *)
(* overflow or the subnormal numbers, and no operation makes an infinity.  *)
(***************************************************************************)
LimbBits == 14
LimbBase == 16384
MantissaBits == 53
MantissaLimbs == 4

DZero == [neg |-> FALSE, m |-> << >>, e |-> 0]
NaN == [neg |-> FALSE, m |-> << >>, e |-> 1024]
DIsZero(a) == a.m = << >> /\ a.e = 0
isNaN(a) == a.m = << >> /\ a.e # 0
DNeg(a) == IF a.m = << >> THEN a ELSE [a EXCEPT !.neg = ~a.neg]
DAbs(a) == IF a.neg THEN [a EXCEPT !.neg = FALSE] ELSE a

Limb(a, i) == IF i >= 1 /\ i <= Len(a) THEN a[i] ELSE 0

\* the index of the leading digit of a at or below i, 0 when there is none
RECURSIVE TopLimb(_, _)
TopLimb(a, i) == IF i = 0 THEN 0 ELSE IF a[i] # 0 THEN i ELSE TopLimb(a, i - 1)

RECURSIVE BitLength(_)
BitLength(n) == IF n = 0 THEN 0 ELSE IF n >= 128 THEN 7 + BitLength(n \div 128) ELSE 1 + BitLength(n \div 2)

BitsTo(a, top) == IF top = 0 THEN 0 ELSE LimbBits * (top - 1) + BitLength(a[top])
BBitLen(a) == BitsTo(a, TopLimb(a, Len(a)))

\* digit i of floor(a / d) for d = 2^k, k < LimbBits
LimbDown(a, i, d) == Limb(a, i) \div d + (Limb(a, i + 1) % d) * (LimbBase \div d)

\* digit i of a * d for d = 2^k, k < LimbBits
LimbUp(a, i, d) == (Limb(a, i) % (LimbBase \div d)) * d + Limb(a, i - 1) \div (LimbBase \div d)

\* the MantissaLimbs lowest digits of floor(a / 2^bits)
ShiftedDown(a, limbs, d) ==
    << LimbDown(a, limbs + 1, d), LimbDown(a, limbs + 2, d),
       LimbDown(a, limbs + 3, d), LimbDown(a, limbs + 4, d) >>
BShr(a, bits) == ShiftedDown(a, bits \div LimbBits, 2 ^ (bits % LimbBits))

\* a * 2^bits in n digits
RECURSIVE ShiftedUp(_, _, _, _, _)
ShiftedUp(a, limbs, d, i, n) ==
    IF i > n THEN << >>
    ELSE << LimbUp(a, i - limbs, d) >> \o ShiftedUp(a, limbs, d, i + 1, n)
BShl(a, bits, n) == ShiftedUp(a, bits \div LimbBits, 2 ^ (bits % LimbBits), 1, n)

\* the value of the three lowest digits of a, below 2^31
BToInt(a) == a[1] + LimbBase * (a[2] + LimbBase * a[3])

\* the digits of 0 <= n < 2^31
BFromInt(n) == << n % LimbBase, (n \div LimbBase) % LimbBase, n \div (LimbBase * LimbBase) >>

\* a + b in n digits; t is the sum at digit i
RECURSIVE BAddAt(_, _, _, _, _)
RECURSIVE BAddDigit(_, _, _, _, _)
BAddAt(a, b, i, carry, n) ==
    IF i > n THEN << >> ELSE BAddDigit(a, b, i, Limb(a, i) + Limb(b, i) + carry, n)
BAddDigit(a, b, i, t, n) == << t % LimbBase >> \o BAddAt(a, b, i + 1, t \div LimbBase, n)

\* a - b in n digits, a >= b; t is the difference at digit i
RECURSIVE BSubAt(_, _, _, _, _)
RECURSIVE BSubDigit(_, _, _, _, _)
BSubAt(a, b, i, borrow, n) ==
    IF i > n THEN << >> ELSE BSubDigit(a, b, i, Limb(a, i) - Limb(b, i) - borrow, n)
BSubDigit(a, b, i, t, n) ==
    << t % LimbBase >> \o BSubAt(a, b, i + 1, IF t < 0 THEN 1 ELSE 0, n)

\* -1, 0, 1 as a < b, a = b, a > b, from digit i down
RECURSIVE BCmpAt(_, _, _)
BCmpAt(a, b, i) ==
    IF i = 0 THEN 0
    ELSE IF Limb(a, i) > Limb(b, i) THEN 1
    ELSE IF Limb(a, i) < Limb(b, i) THEN -1
    ELSE BCmpAt(a, b, i - 1)

\* the digit i of the bit of weight 2^bit is set in a
BitSet(a, bit) == (Limb(a, bit \div LimbBits + 1) \div 2 ^ (bit % LimbBits)) % 2 = 1

\* some bit of a below 2^bit is set
SomeBitBelow(a, bit) ==
    \/ Limb(a, bit \div LimbBits + 1) % 2 ^ (bit % LimbBits) # 0
    \/ \E i \in 1..Min(bit \div LimbBits, Len(a)) : a[i] # 0

\* q + 1 for a mantissa q below 2^MantissaBits - 1
Successor(q) ==
    IF q[1] < LimbBase - 1 THEN << q[1] + 1, q[2], q[3], q[4] >>
    ELSE IF q[2] < LimbBase - 1 THEN << 0, q[2] + 1, q[3], q[4] >>
    ELSE IF q[3] < LimbBase - 1 THEN << 0, 0, q[3] + 1, q[4] >>
    ELSE << 0, 0, 0, q[4] + 1 >>

\* the mantissa q * 2^e, one more when up; q + 1 may reach 2^MantissaBits
Renormalised(neg, q, up, e) ==
    IF ~up THEN [neg |-> neg, m |-> q, e |-> e]
    ELSE IF q = << LimbBase - 1, LimbBase - 1, LimbBase - 1, 2047 >>
    THEN [neg |-> neg, m |-> << 0, 0, 0, 1024 >>, e |-> e + 1]
    ELSE [neg |-> neg, m |-> Successor(q), e |-> e]

\* round to nearest, ties to even: the bit below the cut is set, and either
\* something lies below it or the mantissa kept is odd
RoundsUp(M, shift, sticky, q) ==
    BitSet(M, shift - 1) /\ (sticky \/ q[1] % 2 = 1 \/ SomeBitBelow(M, shift - 1))

\* M = q * 2^shift + the bits cut off
RoundedTo(neg, M, q, shift, E, sticky) ==
    Renormalised(neg, q, RoundsUp(M, shift, sticky, q), E + shift)

\* M has len bits
RoundedFrom(neg, M, len, E, sticky) ==
    IF len = 0 THEN DZero
    ELSE IF len <= MantissaBits
    THEN [neg |-> neg, m |-> BShl(M, MantissaBits - len, MantissaLimbs),
          e |-> E - (MantissaBits - len)]
    ELSE RoundedTo(neg, M, BShr(M, len - MantissaBits), len - MantissaBits, E, sticky)

\* the double nearest to (-1)^neg * (M + t) * 2^E, 0 <= t < 1, sticky = (t > 0),
\* ties to the even mantissa; with sticky, M has more than MantissaBits + 1 bits
DRound(neg, M, E, sticky) == RoundedFrom(neg, M, BBitLen(M), E, sticky)

\* an integer of the model as a double (every |n| < 2^31 is a double)
DFromInt(n) == DRound(n < 0, BFromInt(IF n < 0 THEN -n ELSE n), 0, FALSE)

\* -1, 0, 1 as |a| < |b|, |a| = |b|, |a| > |b|, for two numbers that are not zero
MagnitudeCmp(a, b) ==
    IF a.e > b.e THEN 1 ELSE IF a.e < b.e THEN -1 ELSE BCmpAt(a.m, b.m, MantissaLimbs)

\* -1, 0, 1 as a < b, a = b, a > b, for two numbers
DCmp(a, b) ==
    IF DIsZero(a) THEN (IF DIsZero(b) THEN 0 ELSE IF b.neg THEN 1 ELSE -1)
    ELSE IF DIsZero(b) THEN (IF a.neg THEN -1 ELSE 1)
    ELSE IF a.neg # b.neg THEN (IF a.neg THEN -1 ELSE 1)
    ELSE IF a.neg THEN -MagnitudeCmp(a, b)
    ELSE MagnitudeCmp(a, b)

\* a < b, a > b, a <= b, a >= b: false when one of them is NaN
DLess(a, b) == ~isNaN(a) /\ ~isNaN(b) /\ DCmp(a, b) < 0
DGreater(a, b) == DLess(b, a)
DLessEq(a, b) == ~isNaN(a) /\ ~isNaN(b) /\ DCmp(a, b) <= 0
DGreaterEq(a, b) == DLessEq(b, a)

\* Math.min(a, b) and Math.max(a, b): NaN when one of them is
MathMin(a, b) == IF isNaN(a) \/ isNaN(b) THEN NaN ELSE IF DCmp(a, b) <= 0 THEN a ELSE b
MathMax(a, b) == IF isNaN(a) \/ isNaN(b) THEN NaN ELSE IF DCmp(a, b) >= 0 THEN a ELSE b

\* The digits that hold A + B: two mantissas at most MaxAlign bits apart
WideLimbs == 8
MaxAlign == 54

\* the digits of A + B for two numbers of the same sign, and of the
\* difference of the larger and the smaller otherwise; c compares A with B
AddedDigits(same, A, B, c, n) ==
    IF same THEN BAddAt(A, B, 1, 0, n)
    ELSE IF c > 0 THEN BSubAt(A, B, 1, 0, n)
    ELSE BSubAt(B, A, 1, 0, n)

\* A * 2^e and B * 2^e with their signs, added in n digits: the sum has the
\* sign of the larger
AddAligned(aneg, A, bneg, B, e, c, n) ==
    DRound(IF c > 0 THEN aneg ELSE bneg, AddedDigits(aneg = bneg, A, B, c, n), e, FALSE)

AddWide(hi, A, lo, n) == AddAligned(hi.neg, A, lo.neg, lo.m, lo.e, BCmpAt(A, lo.m, n), n)

\* the digits of a mantissa moved up by shift bits, and one bit for the carry
AddIn(hi, lo, n) == AddWide(hi, BShl(hi.m, hi.e - lo.e, n), lo, n)

\* hi.e >= lo.e; a number more than MaxAlign binary places below the last
\* place of the other does not change it
AddOrdered(hi, lo) ==
    IF hi.e - lo.e > MaxAlign THEN hi
    ELSE AddIn(hi, lo, (hi.e - lo.e + MantissaBits) \div LimbBits + 1)

\* a + b
DAdd(a, b) ==
    IF isNaN(a) \/ isNaN(b) THEN NaN
    ELSE IF DIsZero(a) THEN b
    ELSE IF DIsZero(b) THEN a
    ELSE AddOrdered(IF a.e >= b.e THEN a ELSE b, IF a.e >= b.e THEN b ELSE a)

DSub(a, b) == DAdd(a, DNeg(b))

\* the digits of a number from the sums of its columns
RECURSIVE Carried(_, _, _)
RECURSIVE CarriedDigit(_, _, _)
Carried(cols, i, carry) ==
    IF i > Len(cols) THEN << carry >> ELSE CarriedDigit(cols, i, cols[i] + carry)
CarriedDigit(cols, i, t) == << t % LimbBase >> \o Carried(cols, i + 1, t \div LimbBase)

\* a * b for two mantissas
BMul(a, b) ==
    Carried(<< a[1] * b[1],
               a[1] * b[2] + a[2] * b[1],
               a[1] * b[3] + a[2] * b[2] + a[3] * b[1],
               a[1] * b[4] + a[2] * b[3] + a[3] * b[2] + a[4] * b[1],
               a[2] * b[4] + a[3] * b[3] + a[4] * b[2],
               a[3] * b[4] + a[4] * b[3],
               a[4] * b[4] >>, 1, 0)

\* a * b
DMul(a, b) ==
    IF isNaN(a) \/ isNaN(b) THEN NaN
    ELSE IF DIsZero(a) \/ DIsZero(b) THEN DZero
    ELSE DRound(a.neg # b.neg, BMul(a.m, b.m), a.e + b.e, FALSE)

\* a * k for a digit k, in Len(a) + 1 digits
BMulSmall(a, k) ==
    Carried(<< a[1] * k, a[2] * k, a[3] * k, a[4] * k >>, 1, 0)

\* Long division of r * 2^(QuotientLimbs * LimbBits) by b, r < b, a digit of
\* LimbBits bits at a time: quotient and remainder.  b has QuotientLimbs
\* digits and its leading bit set, so that the digit estimated from the two
\* leading digits of the remainder is at most 2 too large.
QuotientLimbs == 4

\* the digit of r \div b, at most qhat, and the remainder; p = b * qhat
RECURSIVE DigitFrom(_, _, _, _)
DigitFrom(r, b, qhat, p) ==
    IF BCmpAt(p, r, QuotientLimbs + 1) > 0
    THEN DigitFrom(r, b, qhat - 1, BMulSmall(b, qhat - 1))
    ELSE [q |-> qhat, r |-> BSubAt(r, p, 1, 0, QuotientLimbs)]

DigitEstimated(r, b, qhat) == DigitFrom(r, b, qhat, BMulSmall(b, qhat))

\* r * LimbBase divided by b, r < b
DivDigit(r, b) ==
    DigitEstimated(<< 0 >> \o r, b,
                   Min(LimbBase - 1,
                       (r[QuotientLimbs] * LimbBase + r[QuotientLimbs - 1]) \div b[QuotientLimbs]))

\* the digits of the quotient, the leading one first
JoinDigits(top, lower) == [q |-> << top.q >> \o lower.q, r |-> lower.r]

RECURSIVE DivLimbs(_, _, _)
RECURSIVE DivNextLimbs(_, _, _)
DivLimbs(r, b, n) ==
    IF n = 0 THEN [q |-> << >>, r |-> r]
    ELSE DivNextLimbs(DivDigit(r, b), b, n)
DivNextLimbs(top, b, n) == JoinDigits(top, DivLimbs(top.r, b, n - 1))

\* the quotient of the mantissas from its digits q, the leading one first,
\* its leading 1 when first, and its remainder d.r
QuotientDigits(q, first) ==
    IF first THEN << q[4], q[3], q[2], q[1], 1 >> ELSE << q[4], q[3], q[2], q[1] >>

QuotientRounded(neg, first, d, e) ==
    DRound(neg, QuotientDigits(d.q, first), e, d.r # << 0, 0, 0, 0 >>)

DivMantissas(neg, a, b, first, e) ==
    QuotientRounded(neg, first,
                    DivLimbs(IF first THEN BSubAt(a, b, 1, 0, QuotientLimbs) ELSE a, b, QuotientLimbs),
                    e - QuotientLimbs * LimbBits)

\* a / b for b # 0, and 0 / 0; the mantissas are brought to QuotientLimbs full digits
DDiv(a, b) ==
    IF isNaN(a) \/ isNaN(b) \/ DIsZero(b) THEN NaN
    ELSE IF DIsZero(a) THEN DZero
    ELSE DivMantissas(a.neg # b.neg,
                      BShl(a.m, QuotientLimbs * LimbBits - MantissaBits, QuotientLimbs),
                      BShl(b.m, QuotientLimbs * LimbBits - MantissaBits, QuotientLimbs),
                      BCmpAt(a.m, b.m, MantissaLimbs) >= 0, a.e - b.e)

\* The remainder of A by B, A having at most steps more bits than B: the
\* multiples B * 2^steps, ..., B * 2, B are taken off where they fit
RECURSIVE BRem(_, _, _)
RECURSIVE BRemStep(_, _, _, _)
BRem(A, B, steps) ==
    IF steps < 0 THEN A ELSE BRemStep(A, B, steps, BShl(B, steps, WideLimbs))
BRemStep(A, B, steps, multiple) ==
    IF BCmpAt(A, multiple, WideLimbs) >= 0
    THEN BRem(BSubAt(A, multiple, 1, 0, WideLimbs), B, steps - 1)
    ELSE BRem(A, B, steps - 1)

RemAt(a, b, e) ==
    DRound(a.neg,
           BRem(BShl(a.m, a.e - e, WideLimbs), BShl(b.m, b.e - e, WideLimbs), a.e - b.e + 1),
           e, FALSE)

\* a % b of JavaScript for b # 0: exact, with the sign of a; |a| < 2^MaxAlign * |b|
DMod(a, b) ==
    IF isNaN(a) \/ isNaN(b) \/ DIsZero(b) THEN NaN
    ELSE IF DIsZero(a) THEN a
    ELSE IF MagnitudeCmp(a, b) < 0 THEN a
    ELSE RemAt(a, b, Min(a.e, b.e))

\* Math.floor(a) for 0 <= a < 2^31
DFloor(a) ==
    IF DIsZero(a) \/ -a.e > MantissaBits THEN 0
    ELSE BToInt(BShr(a.m, -a.e))

\* Math.round(a) for 0 <= a < 2^30: the nearest integer, a half going up,
\* which is the floor of a + 1/2 taken exactly
DMathRound(a) ==
    IF DIsZero(a) \/ -a.e > MantissaBits + 1 THEN 0
    ELSE BToInt(BShr(a.m, -a.e)) + (IF BitSet(a.m, -a.e - 1) THEN 1 ELSE 0)
(***************************************************************************)
(* colord: hex <-> RGB <-> HSL.                                            *)
(***************************************************************************)
Spelling == 16777216

\* '#rrggbb' with the digits in lower case
Hex(r, g, b) == r * 65536 + g * 256 + b

\* '#RRGGBB', the digits in upper case: another string than Hex(r, g, b) when
\* one of the six digits is a letter
HexUpper(r, g, b) == Spelling + Hex(r, g, b)

\* a hexValue that colord cannot parse, such as 'not-a-color'
Unparseable == -1

\* the hexValue '', the empty string, which colord cannot parse either
EmptyString == -2

\* colord(hex).toRgb(); a color that cannot be parsed is black
toRgb(hex) ==
    IF hex \in { Unparseable, EmptyString } THEN [r |-> 0, g |-> 0, b |-> 0]
    ELSE [r |-> (hex % Spelling) \div 65536, g |-> (hex \div 256) % 256, b |-> hex % 256]

\* colord(rgb).toHex(): each channel is already rounded to 0..255; the digits
\* are in lower case
toHex(rgb) == Hex(rgb.r, rgb.g, rgb.b)

\* Twice the hues 61.5, 62.5, 77.5, 122.5, 123.5, 252.5, 253.5 and 254.5:
\* the values of 60 * (2 + (b - r) / delta) and 60 * (4 + (r - g) / delta) in
\* rgbaToHsva that lie half way between two integers and for which the
\* doubles give the number just below, as in 60 * (2 + 1 / 24) =
\* 122.49999999999999.  Math.round takes every other half up.
HueHalfRoundedDown == { 123, 125, 155, 245, 247, 505, 507, 509 }

\* The << max, min >> of the channels for which the saturation of hsvaToHsla
\* lies half way between two integers and the doubles give the number just
\* below, as in 37.499999999999986 for max 11 and min 5.
SaturationHalfRoundedDown ==
    { << 11, 5 >>, << 22, 10 >>, << 33, 15 >>, << 44, 20 >>, << 45, 3 >>,
      << 51, 29 >>, << 53, 27 >>, << 55, 25 >>, << 59, 21 >>, << 61, 19 >>,
      << 63, 17 >>, << 66, 30 >>, << 71, 9 >>, << 73, 7 >>, << 75, 5 >>,
      << 77, 35 >>, << 88, 40 >>, << 90, 6 >>, << 99, 45 >>, << 102, 58 >>,
      << 105, 7 >>, << 106, 54 >>, << 110, 50 >>, << 118, 42 >>,
      << 121, 55 >>, << 122, 38 >>, << 126, 34 >>, << 132, 60 >>,
      << 135, 9 >>, << 141, 99 >>, << 142, 18 >>, << 143, 65 >>,
      << 146, 14 >>, << 150, 10 >>, << 154, 70 >>, << 159, 81 >>,
      << 162, 108 >>, << 165, 75 >>, << 168, 102 >>, << 171, 147 >>,
      << 174, 96 >>, << 177, 63 >>, << 177, 173 >>, << 178, 156 >>,
      << 180, 12 >>, << 183, 57 >>, << 185, 165 >>, << 186, 84 >>,
      << 189, 51 >>, << 193, 157 >>, << 201, 149 >>, << 204, 66 >>,
      << 205, 145 >>, << 206, 192 >>, << 209, 141 >>, << 210, 14 >>,
      << 210, 60 >>, << 210, 156 >>, << 213, 27 >>, << 216, 86 >>,
      << 216, 214 >>, << 217, 133 >>, << 219, 21 >>, << 219, 99 >>,
      << 221, 129 >>, << 225, 15 >>, << 226, 204 >>, << 228, 202 >>,
      << 232, 198 >>, << 234, 228 >>, << 236, 194 >>, << 238, 192 >>,
      << 240, 30 >>, << 240, 190 >>, << 240, 222 >>, << 241, 45 >>,
      << 241, 109 >>, << 241, 237 >>, << 242, 60 >>, << 242, 188 >>,
      << 243, 75 >>, << 243, 203 >>, << 244, 90 >>, << 245, 105 >>,
      << 245, 233 >>, << 246, 120 >>, << 248, 182 >>, << 248, 246 >>,
      << 249, 101 >>, << 249, 165 >>, << 249, 229 >>, << 250, 180 >>,
      << 250, 244 >>, << 251, 195 >>, << 252, 242 >>, << 254, 176 >>,
      << 254, 240 >> }

\* Math.round(n / d) of rgbaToHsla for the hue, n / d >= 0
RoundHue(n, d) ==
    IF (2 * n) % d = 0 /\ (2 * n) \div d \in HueHalfRoundedDown THEN n \div d
    ELSE RoundDiv(n, d)

\* colord(hex).toHsl(): rgbaToHsva, hsvaToHsla, then every component rounded
\* to an integer.
toHsl(hex) ==
    LET rgb == toRgb(hex)
        mx == Max(rgb.r, Max(rgb.g, rgb.b))
        mn == Min(rgb.r, Min(rgb.g, rgb.b))
        delta == mx - mn
        sum == mx + mn
        hnum == IF delta = 0 THEN 0
                ELSE IF mx = rgb.r
                     THEN (IF rgb.g - rgb.b < 0
                           THEN 60 * (rgb.g - rgb.b) + 360 * delta
                           ELSE 60 * (rgb.g - rgb.b))
                ELSE IF mx = rgb.g THEN 120 * delta + 60 * (rgb.b - rgb.r)
                ELSE 240 * delta + 60 * (rgb.r - rgb.g)
    IN  [h |-> IF delta = 0 THEN 0 ELSE RoundHue(hnum, delta),
         s |-> IF sum > 0 /\ sum < 510
               THEN (IF << mx, mn >> \in SaturationHalfRoundedDown
                     THEN (100 * delta) \div (IF sum <= 255 THEN sum ELSE 510 - sum)
                     ELSE RoundDiv(100 * delta, IF sum <= 255 THEN sum ELSE 510 - sum))
               ELSE 0,
         l |-> RoundDiv(50 * sum, 255)]

\* the numbers of the conversions as doubles
D1 == DFromInt(1)
D2 == DFromInt(2)
D6 == DFromInt(6)
D100 == DFromInt(100)
D255 == DFromInt(255)
D360 == DFromInt(360)
D180 == DFromInt(180)
DHalf == DDiv(DFromInt(1), DFromInt(2))
DHueScale == DFromInt(HueScale)
DPctScale == DFromInt(PctScale)

\* roundRgba: Math.round of every channel, the channels being fractions of 1
roundRgba(r, g, b) ==
    [r |-> DMathRound(DMul(r, D255)),
     g |-> DMathRound(DMul(g, D255)),
     b |-> DMathRound(DMul(b, D255))]

\* hsvaToRgba: the channels of sector hh % 6
SectorRgba(sector, v, b, c, d) ==
    roundRgba(<< v, c, b, b, d, v >>[sector + 1],
              << d, v, v, c, b, b >>[sector + 1],
              << b, b, d, v, v, c >>[sector + 1])

\* hsvaToRgba after h = (h / 360) * 6, s /= 100, v /= 100, hh = Math.floor(h)
SectorChannels(h, hh, s, v) ==
    SectorRgba(hh % 6, v,
               DMul(v, DSub(D1, s)),
               DMul(v, DSub(D1, DMul(DSub(h, DFromInt(hh)), s))),
               DMul(v, DSub(D1, DMul(DAdd(DSub(D1, h), DFromInt(hh)), s))))

SixthsOfTurn(h, s, v) == SectorChannels(h, DFloor(h), s, v)

hsvaToRgba(h, s, v) ==
    SixthsOfTurn(DMul(DDiv(h, D360), D6),
                 DDiv(s, D100), DDiv(v, D100))

\* hslaToHsva after s *= (l < 50 ? l : 100 - l) / 100
hslaToHsva(h, s, l) ==
    hsvaToRgba(h,
               IF DIsZero(s) THEN DZero
               ELSE DMul(DDiv(DMul(D2, s), DAdd(l, s)), D100),
               DAdd(l, s))

\* hslaToRgba, then roundRgba, for the clamped h, s and l
DoubleHslToRgb(hc, sc, lc) ==
    hslaToHsva(hc,
               DMul(sc, DDiv(DFromInt(IF lc < 50 THEN lc ELSE 100 - lc), D100)),
               DFromInt(lc))

\* The channels of colord({h, s, l}) are also computed in integers, from h
\* and s to the nearest 1/HueScale degree and 1/PctScale percent: that value
\* of a channel is within HalfMargin / 2 (in 1/(100 * PctScale) of a channel
\* step) of the one of the doubles, so that Math.round gives the same
\* integer unless the value is within HalfMargin of a half; there the
\* doubles are computed.
HalfMargin == 2000

\* the channel value x (1/PctScale percent) is within HalfMargin of k + 1/2
NearHalf(x) == Abs(((255 * x) % (100 * PctScale)) - 50 * PctScale) <= HalfMargin

\* hc and sc are h and s in 1/HueScale degree and 1/PctScale percent
SectorHex(h, s, lc, R, G, B) ==
    IF NearHalf(R) \/ NearHalf(G) \/ NearHalf(B)
    THEN toHex(DoubleHslToRgb(h, s, lc))
    ELSE toHex([r |-> RoundDiv(255 * R, 100 * PctScale),
                g |-> RoundDiv(255 * G, 100 * PctScale),
                b |-> RoundDiv(255 * B, 100 * PctScale)])

\* V, b, c, d of hsvaToRgba in 1/PctScale percent
ChannelsHex(h, s, lc, sector, V, b, c, d) ==
    SectorHex(h, s, lc, << V, c, b, b, d, V >>[sector + 1],
              << d, V, V, c, b, b >>[sector + 1], << b, b, d, V, V, c >>[sector + 1])

\* sl = s * (l < 50 ? l : 100 - l) / 100; sw = sl * (1 - 2 * (h - hh)), for the
\* part hm of the hue above its sixth of the turn
SpreadHex(h, s, lc, sector, sl, sw) ==
    ChannelsHex(h, s, lc, sector, lc * PctScale + sl, lc * PctScale - sl,
                lc * PctScale + sw, lc * PctScale - sw)

FixedHex(h, s, lc, hc, sl) ==
    SpreadHex(h, s, lc, (hc \div (60 * HueScale)) % 6, sl,
              MulFrac(sl, ((60 * HueScale - 2 * (hc % (60 * HueScale))) * 5) \div 3, 1000000))

ClampedHex(h, s, lc, hc, sc) ==
    FixedHex(h, s, lc, hc, (sc * (IF lc < 50 THEN lc ELSE 100 - lc)) \div 100)

\* degrees > 0 ? degrees : degrees + 360
positiveDegrees(degrees) ==
    IF DGreater(degrees, DZero) THEN degrees ELSE DAdd(degrees, D360)

\* clampHue: degrees = isFinite(h) ? h % 360 : 0
clampHue(h) == IF isNaN(h) THEN positiveDegrees(DZero) ELSE positiveDegrees(DMod(h, D360))

\* clamp(number, min, max): number > max ? max : number > min ? number : min
clamp(number, min, max) ==
    IF DGreater(number, max) THEN max ELSE IF DGreater(number, min) THEN number ELSE min

HexOfClamped(h, s, lc) ==
    ClampedHex(h, s, lc, DMathRound(DMul(h, DHueScale)), DMathRound(DMul(s, DPctScale)))

\* the hue clamped; a hue that is not a number is 0 before clampHue adds 360
HexOfHue(h, s, l) ==
    IF isNaN(h) THEN HexOfClamped(D360, s, l) ELSE HexOfClamped(clampHue(h), s, l)

\* colord({h, s, l}).toHex(): clampHsla, hslaToHsva, hsvaToRgba, roundRgba.
\* h and s are doubles, l is an integer; a saturation that is not a number
\* is clamped to the minimum
fromHsl(h, s, l) ==
    IF isNaN(s) THEN HexOfHue(h, DZero, Min(100, Max(0, l)))
    ELSE HexOfHue(h, clamp(s, DZero, D100), Min(100, Max(0, l)))
(***************************************************************************)
(* Reference palette table (utils/openColor).                              *)
(***************************************************************************)
OPEN_COLOR_HUES == <<
    [key |-> "gray",   name |-> "Gray",   hue |-> 210, color |-> Hex(134,142,150)],
    [key |-> "red",    name |-> "Red",    hue |-> 0,   color |-> Hex(255,107,107)],
    [key |-> "pink",   name |-> "Pink",   hue |-> 328, color |-> Hex(240,101,149)],
    [key |-> "grape",  name |-> "Grape",  hue |-> 294, color |-> Hex(204,93,232)],
    [key |-> "violet", name |-> "Violet", hue |-> 260, color |-> Hex(132,94,247)],
    [key |-> "indigo", name |-> "Indigo", hue |-> 242, color |-> Hex(92,124,250)],
    [key |-> "blue",   name |-> "Blue",   hue |-> 200, color |-> Hex(51,154,240)],
    [key |-> "cyan",   name |-> "Cyan",   hue |-> 187, color |-> Hex(34,184,207)],
    [key |-> "teal",   name |-> "Teal",   hue |-> 162, color |-> Hex(32,201,151)],
    [key |-> "green",  name |-> "Green",  hue |-> 120, color |-> Hex(81,207,102)],
    [key |-> "lime",   name |-> "Lime",   hue |-> 83,  color |-> Hex(148,216,45)],
    [key |-> "yellow", name |-> "Yellow", hue |-> 44,  color |-> Hex(252,196,25)],
    [key |-> "orange", name |-> "Orange", hue |-> 25,  color |-> Hex(255,146,43)] >>

OPEN_COLOR_PALETTE == <<
    [key |-> "gray", shades |-> <<
        Hex(248,249,250), Hex(241,243,244), Hex(233,236,239), Hex(222,226,230), Hex(206,212,218), Hex(173,181,189), Hex(134,142,150), Hex(73,80,87), Hex(52,58,64), Hex(33,37,41)>>],
    [key |-> "red", shades |-> <<
        Hex(255,245,245), Hex(255,227,227), Hex(255,201,201), Hex(255,168,168), Hex(255,135,135), Hex(255,107,107), Hex(250,82,82), Hex(240,62,62), Hex(224,49,49), Hex(201,42,42)>>],
    [key |-> "pink", shades |-> <<
        Hex(255,240,246), Hex(255,222,235), Hex(252,194,215), Hex(250,162,193), Hex(247,131,172), Hex(240,101,149), Hex(230,73,128), Hex(214,51,108), Hex(194,37,92), Hex(166,30,77)>>],
    [key |-> "grape", shades |-> <<
        Hex(248,240,252), Hex(243,217,250), Hex(238,190,250), Hex(229,153,247), Hex(218,119,242), Hex(204,93,232), Hex(190,75,219), Hex(174,62,201), Hex(156,54,181), Hex(134,46,156)>>],
    [key |-> "violet", shades |-> <<
        Hex(243,240,255), Hex(229,219,255), Hex(208,191,255), Hex(177,151,252), Hex(151,117,250), Hex(132,94,247), Hex(121,80,242), Hex(112,72,232), Hex(103,65,217), Hex(95,61,196)>>],
    [key |-> "indigo", shades |-> <<
        Hex(237,242,255), Hex(219,228,255), Hex(186,200,255), Hex(145,167,255), Hex(116,143,252), Hex(92,124,250), Hex(76,110,245), Hex(66,99,235), Hex(59,91,219), Hex(54,79,199)>>],
    [key |-> "blue", shades |-> <<
        Hex(231,245,255), Hex(208,235,255), Hex(165,216,255), Hex(116,192,252), Hex(77,171,247), Hex(51,154,240), Hex(34,139,230), Hex(28,126,214), Hex(25,113,194), Hex(24,100,171)>>],
    [key |-> "cyan", shades |-> <<
        Hex(227,250,252), Hex(197,246,250), Hex(153,233,242), Hex(102,217,239), Hex(59,201,219), Hex(34,184,207), Hex(21,170,191), Hex(16,152,173), Hex(12,133,153), Hex(11,114,133)>>],
    [key |-> "teal", shades |-> <<
        Hex(230,252,245), Hex(195,250,232), Hex(150,242,215), Hex(99,230,190), Hex(56,217,169), Hex(32,201,151), Hex(18,184,134), Hex(12,166,120), Hex(9,146,104), Hex(8,127,91)>>],
    [key |-> "green", shades |-> <<
        Hex(235,251,238), Hex(211,249,216), Hex(178,242,187), Hex(140,233,154), Hex(105,219,124), Hex(81,207,102), Hex(64,192,87), Hex(55,178,77), Hex(47,158,68), Hex(43,138,62)>>],
    [key |-> "lime", shades |-> <<
        Hex(244,252,227), Hex(233,250,200), Hex(216,245,162), Hex(192,235,117), Hex(169,227,75), Hex(148,216,45), Hex(130,201,30), Hex(116,184,22), Hex(102,168,15), Hex(92,148,13)>>],
    [key |-> "yellow", shades |-> <<
        Hex(255,249,219), Hex(255,243,191), Hex(255,236,153), Hex(255,224,102), Hex(255,212,59), Hex(252,196,25), Hex(250,176,5), Hex(245,159,0), Hex(240,140,0), Hex(230,119,0)>>],
    [key |-> "orange", shades |-> <<
        Hex(255,244,230), Hex(255,232,204), Hex(255,216,168), Hex(255,192,120), Hex(255,169,77), Hex(255,146,43), Hex(253,126,20), Hex(247,103,7), Hex(232,89,12), Hex(217,72,15)>>] >>

\* Object.keys(OPEN_COLOR_HUES), in table order
HueKeys(tables) == [i \in 1..Len(tables.OPEN_COLOR_HUES) |-> tables.OPEN_COLOR_HUES[i].key]

OpenColorHue(tables) == {tables.OPEN_COLOR_HUES[i].key : i \in 1..Len(tables.OPEN_COLOR_HUES)}

\* OPEN_COLOR_HUES[key]
HueInfo(key, tables) == CHOOSE e \in {tables.OPEN_COLOR_HUES[i] : i \in 1..Len(tables.OPEN_COLOR_HUES)} : e.key = key

\* OPEN_COLOR_PALETTE[key]
PaletteOf(key, tables) ==
    (CHOOSE e \in {tables.OPEN_COLOR_PALETTE[i] : i \in 1..Len(tables.OPEN_COLOR_PALETTE)} : e.key = key).shades

SPECTRAL_ORDER == << "red", "pink", "grape", "violet", "indigo", "blue", "cyan",
                     "teal", "green", "lime", "yellow", "orange", "gray" >>

\* The index of a family in the key order of OPEN_COLOR_HUES (gray first).
hueTableIndex(hue, tables) ==
    IF \E i \in 1..Len(tables.OPEN_COLOR_HUES) : tables.OPEN_COLOR_HUES[i].key = hue
    THEN (CHOOSE i \in 1..Len(tables.OPEN_COLOR_HUES) : tables.OPEN_COLOR_HUES[i].key = hue) - 1
    ELSE 999

\* The module's tables as the module defines them.  The functions below take
\* the tables as their last argument, tables: what the module-level objects
\* OPEN_COLOR_HUES, OPEN_COLOR_PALETTE and SPECTRAL_ORDER hold at the time of
\* the call.
ModuleTables ==
    [OPEN_COLOR_HUES |-> OPEN_COLOR_HUES, OPEN_COLOR_PALETTE |-> OPEN_COLOR_PALETTE,
     SPECTRAL_ORDER |-> SPECTRAL_ORDER]

getSpectralIndex(hue, tables) ==
    IF \E i \in 1..Len(tables.SPECTRAL_ORDER) : tables.SPECTRAL_ORDER[i] = hue
    THEN (CHOOSE i \in 1..Len(tables.SPECTRAL_ORDER) : tables.SPECTRAL_ORDER[i] = hue) - 1
    ELSE 999

(***************************************************************************)
(* Hue classifier (utils/openColor).                                       *)
(***************************************************************************)
GrayThreshold == 15

calculateHueDistance(hue1, hue2) ==
    LET diff == Abs(hue1 - hue2)
    IN  Min(diff, 360 - diff)

\* A classifier loop that lets a later family at the same distance win
\* (<= for <).
RECURSIVE ClosestHueLoopLastWins(_, _, _, _, _)
ClosestHueLoopLastWins(h, i, closestHue, minDistance, tables) ==
    IF i > Len(tables.OPEN_COLOR_HUES) THEN closestHue
    ELSE LET e == tables.OPEN_COLOR_HUES[i]
             distance == calculateHueDistance(h, e.hue)
         IN  IF e.key = "gray" THEN ClosestHueLoopLastWins(h, i + 1, closestHue, minDistance, tables)
             ELSE IF distance <= minDistance
                  THEN ClosestHueLoopLastWins(h, i + 1, e.key, distance, tables)
                  ELSE ClosestHueLoopLastWins(h, i + 1, closestHue, minDistance, tables)

\* The forEach over Object.entries(OPEN_COLOR_HUES): entry i, with the
\* closest hue and the minimum distance found so far.
RECURSIVE ClosestHueLoop(_, _, _, _, _)
ClosestHueLoop(h, i, closestHue, minDistance, tables) ==
    IF i > Len(tables.OPEN_COLOR_HUES) THEN closestHue
    ELSE LET e == tables.OPEN_COLOR_HUES[i]
             distance == calculateHueDistance(h, e.hue)
         IN  IF e.key = "gray" THEN ClosestHueLoop(h, i + 1, closestHue, minDistance, tables)
             ELSE IF distance < minDistance
                  THEN ClosestHueLoop(h, i + 1, e.key, distance, tables)
                  ELSE ClosestHueLoop(h, i + 1, closestHue, minDistance, tables)

\* A classifier that never answers gray.
findClosestHueOfAnyChroma(hexColor, tables) == ClosestHueLoop(toHsl(hexColor).h, 1, "red", 180, tables)

findClosestOpenColorHue(hexColor, tables) ==
    LET hsl == toHsl(hexColor)
    IN  IF hsl.s < GrayThreshold THEN "gray"
        ELSE ClosestHueLoop(hsl.h, 1, "red", 180, tables)

findClosestOpenColorShade(lightness) ==
    LET shadeIndex == RoundDiv((100 - lightness) * 9, 100)
    IN  Max(0, Min(9, shadeIndex))

\* Math.sqrt(dr*dr + dg*dg + db*db), kept as its square
calculateColorDistance(hex1, hex2) ==
    LET rgb1 == toRgb(hex1)
        rgb2 == toRgb(hex2)
        dr == rgb1.r - rgb2.r
        dg == rgb1.g - rgb2.g
        db == rgb1.b - rgb2.b
    IN  dr * dr + dg * dg + db * db

findClosestOpenColor(hexColor, tables) ==
    LET hsl == toHsl(hexColor)
        closestHue == findClosestOpenColorHue(hexColor, tables)
        closestShade == findClosestOpenColorShade(hsl.l)
        referenceColor == PaletteOf(closestHue, tables)[closestShade + 1]
    IN  [hue |-> closestHue, shade |-> closestShade,
         distance |-> calculateColorDistance(hexColor, referenceColor)]

\* A grouping loop that keeps one copy of a color that occurs twice.
RECURSIVE GroupLoopWithoutRepeats(_, _, _, _)
GroupLoopWithoutRepeats(colors, i, grouped, tables) ==
    IF i > Len(colors) THEN grouped
    ELSE LET closestHue == findClosestOpenColorHue(colors[i], tables)
         IN  IF \E j \in 1..Len(grouped[closestHue]) : grouped[closestHue][j] = colors[i]
             THEN GroupLoopWithoutRepeats(colors, i + 1, grouped, tables)
             ELSE GroupLoopWithoutRepeats(colors, i + 1,
                       [grouped EXCEPT ![closestHue] = Append(@, colors[i])], tables)

\* colors.forEach(color => grouped[closestHue].push(color)), from element i on
RECURSIVE GroupLoop(_, _, _, _)
GroupLoop(colors, i, grouped, tables) ==
    IF i > Len(colors) THEN grouped
    ELSE LET closestHue == findClosestOpenColorHue(colors[i], tables)
         IN  GroupLoop(colors, i + 1,
                       [grouped EXCEPT ![closestHue] = Append(@, colors[i])], tables)

groupColorsByOpenColorHue(colors, tables) ==
    GroupLoop(colors, 1, [hue \in OpenColorHue(tables) |-> << >>], tables)

(***************************************************************************)
(* Group statistics (utils/colorSchemeGenerator).                          *)
(***************************************************************************)
\* The doubles Math.sin((d * Math.PI) / 180) and Math.cos((d * Math.PI) / 180)
\* for d = 0..360, as << e, hi, lo >>: the double is (hi * 2^28 + lo) * 2^e,
\* negative when hi is.  ECMAScript leaves the last bit of Math.sin and
\* Math.cos to the engine; these are the values of fdlibm, which V8 follows:
\* the sine of 180 degrees is 1.2246467991473532e-16 and not 0, and the
\* sines of d and 360 - d do not always cancel.
SinDouble == <<
    << 0, 0, 0 >>, << -58, 18739378, 193584414 >>,
    << -57, 18736524, 167238695 >>, << -57, 28097652, 149932301 >>,
    << -56, 18725110, 225071400 >>, << -56, 23395691, 146964738 >>,
    << -56, 28059145, 188503915 >>, << -56, 32714052, 206529235 >>,
    << -55, 18679497, 109944345 >>, << -55, 20996278, 128471925 >>,
    << -55, 23306663, 235631497 >>, << -55, 25609949, 225862223 >>,
    << -55, 27905434, 205674741 >>, << -55, 30192419, 114148981 >>,
    << -55, 32470207, 48544029 >>, << -54, 17369052, 26412688 >>,
    << -54, 18497709, 221417001 >>, << -54, 19620732, 260298184 >>,
    << -54, 20737779, 120580431 >>, << -54, 21848509, 52699 >>,
    << -54, 22952583, 76155893 >>, << -54, 24049665, 265212732 >>,
    << -54, 25139422, 249927297 >>, << -54, 26221522, 43581354 >>,
    << -54, 27295634, 17177296 >>, << -54, 28361431, 121083987 >>,
    << -54, 29418589, 180225480 >>, << -54, 30466786, 189062656 >>,
    << -54, 31505703, 69488761 >>, << -54, 32535022, 233808109 >>,
    << -54, 33554431, 268435455 >>, << -53, 17281810, 16637715 >>,
    << -53, 17781139, 246209834 >>, << -53, 18275053, 124811037 >>,
    << -53, 18763400, 68287763 >>, << -53, 19246031, 142363000 >>,
    << -53, 19722800, 74799710 >>, << -53, 20193561, 72728246 >>,
    << -53, 20658171, 29215032 >>, << -53, 21116488, 71858877 >>,
    << -53, 21568373, 37492252 >>, << -53, 22013688, 20467667 >>,
    << -53, 22452297, 115477464 >>, << -53, 22884067, 160209963 >>,
    << -53, 23308867, 14709520 >>, << -53, 23726566, 109001676 >>,
    << -53, 24137038, 111496504 >>, << -53, 24540158, 13134210 >>,
    << -53, 24935802, 137608898 >>, << -53, 25323851, 77667383 >>,
    << -53, 25704186, 47140921 >>, << -53, 26076691, 85304103 >>,
    << -53, 26441253, 66347986 >>, << -53, 26797760, 245529108 >>,
    << -53, 27146105, 194507944 >>, << -53, 27486181, 152405831 >>,
    << -53, 27817884, 229174949 >>, << -53, 28141114, 145633243 >>,
    << -53, 28455772, 47032646 >>, << -53, 28761761, 242674397 >>,
    << -53, 29058990, 140004522 >>, << -53, 29347367, 131283398 >>,
    << -53, 29626804, 258811655 >>, << -53, 29897217, 222112876 >>,
    << -53, 30158523, 190200010 >>, << -53, 30410643, 3004263 >>,
    << -53, 30653498, 251625365 >>, << -53, 30887017, 137127534 >>,
    << -53, 31111127, 160942936 >>, << -53, 31325760, 251639813 >>,
    << -53, 31530852, 38939931 >>, << -53, 31726338, 201241802 >>,
    << -53, 31912161, 54809855 >>, << -53, 32088262, 242998047 >>,
    << -53, 32254590, 56523648 >>, << -53, 32411092, 122208021 >>,
    << -53, 32557721, 259635749 >>, << -53, 32694434, 21923599 >>,
    << -53, 32821187, 41549951 >>, << -53, 32937942, 154711746 >>,
    << -53, 33044664, 209787927 >>, << -53, 33141321, 70247516 >>,
    << -53, 33227882, 154178681 >>, << -53, 33304322, 94518923 >>,
    << -53, 33370617, 83388358 >>, << -53, 33426747, 68687266 >>,
    << -53, 33472695, 24182774 >>, << -53, 33508446, 219342365 >>,
    << -53, 33533991, 146736487 >>, << -53, 33549321, 133541770 >>,
    << -52, 16777216, 0 >>, << -53, 33549321, 133541770 >>,
    << -53, 33533991, 146736487 >>, << -53, 33508446, 219342365 >>,
    << -53, 33472695, 24182774 >>, << -53, 33426747, 68687266 >>,
    << -53, 33370617, 83388359 >>, << -53, 33304322, 94518924 >>,
    << -53, 33227882, 154178682 >>, << -53, 33141321, 70247515 >>,
    << -53, 33044664, 209787927 >>, << -53, 32937942, 154711746 >>,
    << -53, 32821187, 41549952 >>, << -53, 32694434, 21923599 >>,
    << -53, 32557721, 259635749 >>, << -53, 32411092, 122208021 >>,
    << -53, 32254590, 56523648 >>, << -53, 32088262, 242998048 >>,
    << -53, 31912161, 54809856 >>, << -53, 31726338, 201241803 >>,
    << -53, 31530852, 38939932 >>, << -53, 31325760, 251639813 >>,
    << -53, 31111127, 160942936 >>, << -53, 30887017, 137127535 >>,
    << -53, 30653498, 251625366 >>, << -53, 30410643, 3004264 >>,
    << -53, 30158523, 190200009 >>, << -53, 29897217, 222112877 >>,
    << -53, 29626804, 258811657 >>, << -53, 29347367, 131283399 >>,
    << -53, 29058990, 140004523 >>, << -53, 28761761, 242674398 >>,
    << -53, 28455772, 47032646 >>, << -53, 28141114, 145633244 >>,
    << -53, 27817884, 229174949 >>, << -53, 27486181, 152405833 >>,
    << -53, 27146105, 194507944 >>, << -53, 26797760, 245529107 >>,
    << -53, 26441253, 66347986 >>, << -53, 26076691, 85304105 >>,
    << -53, 25704186, 47140921 >>, << -53, 25323851, 77667381 >>,
    << -53, 24935802, 137608898 >>, << -53, 24540158, 13134211 >>,
    << -53, 24137038, 111496507 >>, << -53, 23726566, 109001677 >>,
    << -53, 23308867, 14709519 >>, << -53, 22884067, 160209964 >>,
    << -53, 22452297, 115477465 >>, << -53, 22013688, 20467668 >>,
    << -53, 21568373, 37492254 >>, << -53, 21116488, 71858880 >>,
    << -53, 20658171, 29215034 >>, << -53, 20193561, 72728245 >>,
    << -53, 19722800, 74799711 >>, << -53, 19246031, 142363003 >>,
    << -53, 18763400, 68287763 >>, << -53, 18275053, 124811035 >>,
    << -53, 17781139, 246209834 >>, << -53, 17281810, 16637717 >>,
    << -54, 33554431, 268435455 >>, << -54, 32535022, 233808111 >>,
    << -54, 31505703, 69488766 >>, << -54, 30466786, 189062658 >>,
    << -54, 29418589, 180225478 >>, << -54, 28361431, 121083988 >>,
    << -54, 27295634, 17177301 >>, << -54, 26221522, 43581362 >>,
    << -54, 25139422, 249927301 >>, << -54, 24049665, 265212731 >>,
    << -54, 22952583, 76155896 >>, << -54, 21848509, 52705 >>,
    << -54, 20737779, 120580433 >>, << -54, 19620732, 260298189 >>,
    << -54, 18497709, 221417010 >>, << -54, 17369052, 26412693 >>,
    << -55, 32470207, 48544029 >>, << -55, 30192419, 114148973 >>,
    << -55, 27905434, 205674741 >>, << -55, 25609949, 225862229 >>,
    << -55, 23306663, 235631495 >>, << -55, 20996278, 128471929 >>,
    << -55, 18679497, 109944356 >>, << -56, 32714052, 206529240 >>,
    << -56, 28059145, 188503935 >>, << -56, 23395691, 146964772 >>,
    << -56, 18725110, 225071416 >>, << -57, 28097652, 149932298 >>,
    << -57, 18736524, 167238656 >>, << -58, 18739378, 193584393 >>,
    << -105, 18506339, 51665927 >>, << -58, -18739378, 193584322 >>,
    << -57, -18736524, 167238685 >>, << -57, -28097652, 149932263 >>,
    << -56, -18725110, 225071366 >>, << -56, -23395691, 146964722 >>,
    << -56, -28059145, 188503886 >>, << -56, -32714052, 206529255 >>,
    << -55, -18679497, 109944348 >>, << -55, -20996278, 128471920 >>,
    << -55, -23306663, 235631502 >>, << -55, -25609949, 225862220 >>,
    << -55, -27905434, 205674732 >>, << -55, -30192419, 114148980 >>,
    << -55, -32470207, 48544021 >>, << -54, -17369052, 26412681 >>,
    << -54, -18497709, 221416998 >>, << -54, -19620732, 260298177 >>,
    << -54, -20737779, 120580437 >>, << -54, -21848509, 52701 >>,
    << -54, -22952583, 76155892 >>, << -54, -24049665, 265212735 >>,
    << -54, -25139422, 249927297 >>, << -54, -26221522, 43581351 >>,
    << -54, -27295634, 17177290 >>, << -54, -28361431, 121083984 >>,
    << -54, -29418589, 180225474 >>, << -54, -30466786, 189062647 >>,
    << -54, -31505703, 69488762 >>, << -54, -32535022, 233808107 >>,
    << -53, -16777216, 1 >>, << -53, -17281810, 16637715 >>,
    << -53, -17781139, 246209833 >>, << -53, -18275053, 124811037 >>,
    << -53, -18763400, 68287761 >>, << -53, -19246031, 142362998 >>,
    << -53, -19722800, 74799709 >>, << -53, -20193561, 72728244 >>,
    << -53, -20658171, 29215029 >>, << -53, -21116488, 71858879 >>,
    << -53, -21568373, 37492252 >>, << -53, -22013688, 20467669 >>,
    << -53, -22452297, 115477464 >>, << -53, -22884067, 160209962 >>,
    << -53, -23308867, 14709521 >>, << -53, -23726566, 109001676 >>,
    << -53, -24137038, 111496502 >>, << -53, -24540158, 13134207 >>,
    << -53, -24935802, 137608896 >>, << -53, -25323851, 77667380 >>,
    << -53, -25704186, 47140920 >>, << -53, -26076691, 85304106 >>,
    << -53, -26441253, 66347987 >>, << -53, -26797760, 245529108 >>,
    << -53, -27146105, 194507943 >>, << -53, -27486181, 152405829 >>,
    << -53, -27817884, 229174946 >>, << -53, -28141114, 145633244 >>,
    << -53, -28455772, 47032645 >>, << -53, -28761761, 242674396 >>,
    << -53, -29058990, 140004521 >>, << -53, -29347367, 131283399 >>,
    << -53, -29626804, 258811656 >>, << -53, -29897217, 222112876 >>,
    << -53, -30158523, 190200008 >>, << -53, -30410643, 3004261 >>,
    << -53, -30653498, 251625366 >>, << -53, -30887017, 137127534 >>,
    << -53, -31111127, 160942935 >>, << -53, -31325760, 251639812 >>,
    << -53, -31530852, 38939930 >>, << -53, -31726338, 201241803 >>,
    << -53, -31912161, 54809855 >>, << -53, -32088262, 242998046 >>,
    << -53, -32254590, 56523648 >>, << -53, -32411092, 122208021 >>,
    << -53, -32557721, 259635749 >>, << -53, -32694434, 21923598 >>,
    << -53, -32821187, 41549951 >>, << -53, -32937942, 154711745 >>,
    << -53, -33044664, 209787927 >>, << -53, -33141321, 70247515 >>,
    << -53, -33227882, 154178682 >>, << -53, -33304322, 94518924 >>,
    << -53, -33370617, 83388359 >>, << -53, -33426747, 68687266 >>,
    << -53, -33472695, 24182774 >>, << -53, -33508446, 219342365 >>,
    << -53, -33533991, 146736486 >>, << -53, -33549321, 133541770 >>,
    << -52, -16777216, 0 >>, << -53, -33549321, 133541770 >>,
    << -53, -33533991, 146736487 >>, << -53, -33508446, 219342365 >>,
    << -53, -33472695, 24182775 >>, << -53, -33426747, 68687266 >>,
    << -53, -33370617, 83388359 >>, << -53, -33304322, 94518923 >>,
    << -53, -33227882, 154178682 >>, << -53, -33141321, 70247516 >>,
    << -53, -33044664, 209787928 >>, << -53, -32937942, 154711747 >>,
    << -53, -32821187, 41549953 >>, << -53, -32694434, 21923599 >>,
    << -53, -32557721, 259635750 >>, << -53, -32411092, 122208020 >>,
    << -53, -32254590, 56523647 >>, << -53, -32088262, 242998047 >>,
    << -53, -31912161, 54809856 >>, << -53, -31726338, 201241804 >>,
    << -53, -31530852, 38939933 >>, << -53, -31325760, 251639816 >>,
    << -53, -31111127, 160942936 >>, << -53, -30887017, 137127536 >>,
    << -53, -30653498, 251625364 >>, << -53, -30410643, 3004262 >>,
    << -53, -30158523, 190200010 >>, << -53, -29897217, 222112878 >>,
    << -53, -29626804, 258811657 >>, << -53, -29347367, 131283401 >>,
    << -53, -29058990, 140004522 >>, << -53, -28761761, 242674398 >>,
    << -53, -28455772, 47032646 >>, << -53, -28141114, 145633246 >>,
    << -53, -27817884, 229174952 >>, << -53, -27486181, 152405831 >>,
    << -53, -27146105, 194507945 >>, << -53, -26797760, 245529110 >>,
    << -53, -26441253, 66347984 >>, << -53, -26076691, 85304103 >>,
    << -53, -25704186, 47140922 >>, << -53, -25323851, 77667384 >>,
    << -53, -24935802, 137608901 >>, << -53, -24540158, 13134215 >>,
    << -53, -24137038, 111496510 >>, << -53, -23726566, 109001678 >>,
    << -53, -23308867, 14709523 >>, << -53, -22884067, 160209961 >>,
    << -53, -22452297, 115477463 >>, << -53, -22013688, 20467669 >>,
    << -53, -21568373, 37492255 >>, << -53, -21116488, 71858881 >>,
    << -53, -20658171, 29215038 >>, << -53, -20193561, 72728246 >>,
    << -53, -19722800, 74799712 >>, << -53, -19246031, 142363004 >>,
    << -53, -18763400, 68287767 >>, << -53, -18275053, 124811036 >>,
    << -53, -17781139, 246209842 >>, << -53, -17281810, 16637718 >>,
    << -53, -16777216, 4 >>, << -54, -32535022, 233808106 >>,
    << -54, -31505703, 69488761 >>, << -54, -30466786, 189062660 >>,
    << -54, -29418589, 180225473 >>, << -54, -28361431, 121083997 >>,
    << -54, -27295634, 17177296 >>, << -54, -26221522, 43581372 >>,
    << -54, -25139422, 249927303 >>, << -54, -24049665, 265212741 >>,
    << -54, -22952583, 76155891 >>, << -54, -21848509, 52715 >>,
    << -54, -20737779, 120580435 >>, << -54, -19620732, 260298175 >>,
    << -54, -18497709, 221417012 >>, << -54, -17369052, 26412687 >>,
    << -55, -32470207, 48544034 >>, << -55, -30192419, 114148993 >>,
    << -55, -27905434, 205674761 >>, << -55, -25609949, 225862218 >>,
    << -55, -23306663, 235631531 >>, << -55, -20996278, 128471934 >>,
    << -55, -18679497, 109944361 >>, << -56, -32714052, 206529281 >>,
    << -56, -28059145, 188503912 >>, << -56, -23395691, 146964749 >>,
    << -56, -18725110, 225071361 >>, << -57, -28097652, 149932379 >>,
    << -57, -18736524, 167238674 >>, << -58, -18739378, 193584684 >>,
    << -104, -18506339, 51665927 >> >>

CosDouble == <<
    << -52, 16777216, 0 >>, << -53, 33549321, 133541770 >>,
    << -53, 33533991, 146736487 >>, << -53, 33508446, 219342365 >>,
    << -53, 33472695, 24182774 >>, << -53, 33426747, 68687266 >>,
    << -53, 33370617, 83388358 >>, << -53, 33304322, 94518923 >>,
    << -53, 33227882, 154178682 >>, << -53, 33141321, 70247516 >>,
    << -53, 33044664, 209787927 >>, << -53, 32937942, 154711746 >>,
    << -53, 32821187, 41549952 >>, << -53, 32694434, 21923599 >>,
    << -53, 32557721, 259635749 >>, << -53, 32411092, 122208021 >>,
    << -53, 32254590, 56523648 >>, << -53, 32088262, 242998047 >>,
    << -53, 31912161, 54809855 >>, << -53, 31726338, 201241803 >>,
    << -53, 31530852, 38939932 >>, << -53, 31325760, 251639813 >>,
    << -53, 31111127, 160942936 >>, << -53, 30887017, 137127535 >>,
    << -53, 30653498, 251625365 >>, << -53, 30410643, 3004263 >>,
    << -53, 30158523, 190200010 >>, << -53, 29897217, 222112877 >>,
    << -53, 29626804, 258811656 >>, << -53, 29347367, 131283398 >>,
    << -53, 29058990, 140004523 >>, << -53, 28761761, 242674398 >>,
    << -53, 28455772, 47032645 >>, << -53, 28141114, 145633244 >>,
    << -53, 27817884, 229174948 >>, << -53, 27486181, 152405831 >>,
    << -53, 27146105, 194507944 >>, << -53, 26797760, 245529108 >>,
    << -53, 26441253, 66347986 >>, << -53, 26076691, 85304104 >>,
    << -53, 25704186, 47140921 >>, << -53, 25323851, 77667383 >>,
    << -53, 24935802, 137608898 >>, << -53, 24540158, 13134211 >>,
    << -53, 24137038, 111496505 >>, << -53, 23726566, 109001677 >>,
    << -53, 23308867, 14709521 >>, << -53, 22884067, 160209963 >>,
    << -53, 22452297, 115477464 >>, << -53, 22013688, 20467668 >>,
    << -53, 21568373, 37492253 >>, << -53, 21116488, 71858878 >>,
    << -53, 20658171, 29215033 >>, << -53, 20193561, 72728246 >>,
    << -53, 19722800, 74799710 >>, << -53, 19246031, 142363000 >>,
    << -53, 18763400, 68287762 >>, << -53, 18275053, 124811038 >>,
    << -53, 17781139, 246209834 >>, << -53, 17281810, 16637717 >>,
    << -53, 16777216, 1 >>, << -54, 32535022, 233808110 >>,
    << -54, 31505703, 69488762 >>, << -54, 30466786, 189062658 >>,
    << -54, 29418589, 180225481 >>, << -54, 28361431, 121083987 >>,
    << -54, 27295634, 17177297 >>, << -54, 26221522, 43581358 >>,
    << -54, 25139422, 249927296 >>, << -54, 24049665, 265212734 >>,
    << -54, 22952583, 76155895 >>, << -54, 21848509, 52701 >>,
    << -54, 20737779, 120580432 >>, << -54, 19620732, 260298184 >>,
    << -54, 18497709, 221417001 >>, << -54, 17369052, 26412688 >>,
    << -55, 32470207, 48544035 >>, << -55, 30192419, 114148978 >>,
    << -55, 27905434, 205674746 >>, << -55, 25609949, 225862227 >>,
    << -55, 23306663, 235631500 >>, << -55, 20996278, 128471927 >>,
    << -55, 18679497, 109944354 >>, << -56, 32714052, 206529236 >>,
    << -56, 28059145, 188503915 >>, << -56, 23395691, 146964736 >>,
    << -56, 18725110, 225071411 >>, << -57, 28097652, 149932321 >>,
    << -57, 18736524, 167238711 >>, << -58, 18739378, 193584375 >>,
    << -106, 18506339, 51665927 >>, << -58, -18739378, 193584404 >>,
    << -57, -18736524, 167238661 >>, << -57, -28097652, 149932271 >>,
    << -56, -18725110, 225071402 >>, << -56, -23395691, 146964743 >>,
    << -56, -28059145, 188503906 >>, << -56, -32714052, 206529227 >>,
    << -55, -18679497, 109944342 >>, << -55, -20996278, 128471931 >>,
    << -55, -23306663, 235631496 >>, << -55, -25609949, 225862223 >>,
    << -55, -27905434, 205674734 >>, << -55, -30192419, 114148974 >>,
    << -55, -32470207, 48544031 >>, << -54, -17369052, 26412690 >>,
    << -54, -18497709, 221416999 >>, << -54, -19620732, 260298182 >>,
    << -54, -20737779, 120580430 >>, << -54, -21848509, 52695 >>,
    << -54, -22952583, 76155893 >>, << -54, -24049665, 265212732 >>,
    << -54, -25139422, 249927298 >>, << -54, -26221522, 43581352 >>,
    << -54, -27295634, 17177295 >>, << -54, -28361431, 121083985 >>,
    << -54, -29418589, 180225482 >>, << -54, -30466786, 189062656 >>,
    << -54, -31505703, 69488756 >>, << -54, -32535022, 233808108 >>,
    << -54, -33554431, 268435452 >>, << -53, -17281810, 16637716 >>,
    << -53, -17781139, 246209833 >>, << -53, -18275053, 124811037 >>,
    << -53, -18763400, 68287761 >>, << -53, -19246031, 142362998 >>,
    << -53, -19722800, 74799709 >>, << -53, -20193561, 72728247 >>,
    << -53, -20658171, 29215033 >>, << -53, -21116488, 71858876 >>,
    << -53, -21568373, 37492253 >>, << -53, -22013688, 20467670 >>,
    << -53, -22452297, 115477464 >>, << -53, -22884067, 160209962 >>,
    << -53, -23308867, 14709518 >>, << -53, -23726566, 109001676 >>,
    << -53, -24137038, 111496506 >>, << -53, -24540158, 13134210 >>,
    << -53, -24935802, 137608897 >>, << -53, -25323851, 77667383 >>,
    << -53, -25704186, 47140920 >>, << -53, -26076691, 85304102 >>,
    << -53, -26441253, 66347985 >>, << -53, -26797760, 245529109 >>,
    << -53, -27146105, 194507943 >>, << -53, -27486181, 152405829 >>,
    << -53, -27817884, 229174948 >>, << -53, -28141114, 145633245 >>,
    << -53, -28455772, 47032645 >>, << -53, -28761761, 242674397 >>,
    << -53, -29058990, 140004523 >>, << -53, -29347367, 131283398 >>,
    << -53, -29626804, 258811654 >>, << -53, -29897217, 222112876 >>,
    << -53, -30158523, 190200010 >>, << -53, -30410643, 3004263 >>,
    << -53, -30653498, 251625364 >>, << -53, -30887017, 137127533 >>,
    << -53, -31111127, 160942935 >>, << -53, -31325760, 251639813 >>,
    << -53, -31530852, 38939931 >>, << -53, -31726338, 201241802 >>,
    << -53, -31912161, 54809855 >>, << -53, -32088262, 242998047 >>,
    << -53, -32254590, 56523646 >>, << -53, -32411092, 122208020 >>,
    << -53, -32557721, 259635749 >>, << -53, -32694434, 21923599 >>,
    << -53, -32821187, 41549952 >>, << -53, -32937942, 154711746 >>,
    << -53, -33044664, 209787927 >>, << -53, -33141321, 70247515 >>,
    << -53, -33227882, 154178681 >>, << -53, -33304322, 94518923 >>,
    << -53, -33370617, 83388358 >>, << -53, -33426747, 68687266 >>,
    << -53, -33472695, 24182774 >>, << -53, -33508446, 219342365 >>,
    << -53, -33533991, 146736487 >>, << -53, -33549321, 133541770 >>,
    << -52, -16777216, 0 >>, << -53, -33549321, 133541770 >>,
    << -53, -33533991, 146736487 >>, << -53, -33508446, 219342365 >>,
    << -53, -33472695, 24182775 >>, << -53, -33426747, 68687266 >>,
    << -53, -33370617, 83388359 >>, << -53, -33304322, 94518923 >>,
    << -53, -33227882, 154178681 >>, << -53, -33141321, 70247516 >>,
    << -53, -33044664, 209787927 >>, << -53, -32937942, 154711746 >>,
    << -53, -32821187, 41549952 >>, << -53, -32694434, 21923599 >>,
    << -53, -32557721, 259635750 >>, << -53, -32411092, 122208022 >>,
    << -53, -32254590, 56523648 >>, << -53, -32088262, 242998048 >>,
    << -53, -31912161, 54809855 >>, << -53, -31726338, 201241802 >>,
    << -53, -31530852, 38939932 >>, << -53, -31325760, 251639813 >>,
    << -53, -31111127, 160942936 >>, << -53, -30887017, 137127535 >>,
    << -53, -30653498, 251625367 >>, << -53, -30410643, 3004264 >>,
    << -53, -30158523, 190200011 >>, << -53, -29897217, 222112879 >>,
    << -53, -29626804, 258811655 >>, << -53, -29347367, 131283399 >>,
    << -53, -29058990, 140004522 >>, << -53, -28761761, 242674398 >>,
    << -53, -28455772, 47032646 >>, << -53, -28141114, 145633244 >>,
    << -53, -27817884, 229174950 >>, << -53, -27486181, 152405833 >>,
    << -53, -27146105, 194507944 >>, << -53, -26797760, 245529110 >>,
    << -53, -26441253, 66347988 >>, << -53, -26076691, 85304103 >>,
    << -53, -25704186, 47140922 >>, << -53, -25323851, 77667382 >>,
    << -53, -24935802, 137608898 >>, << -53, -24540158, 13134211 >>,
    << -53, -24137038, 111496504 >>, << -53, -23726566, 109001678 >>,
    << -53, -23308867, 14709522 >>, << -53, -22884067, 160209967 >>,
    << -53, -22452297, 115477466 >>, << -53, -22013688, 20467672 >>,
    << -53, -21568373, 37492254 >>, << -53, -21116488, 71858874 >>,
    << -53, -20658171, 29215031 >>, << -53, -20193561, 72728246 >>,
    << -53, -19722800, 74799711 >>, << -53, -19246031, 142363003 >>,
    << -53, -18763400, 68287766 >>, << -53, -18275053, 124811036 >>,
    << -53, -17781139, 246209835 >>, << -53, -17281810, 16637718 >>,
    << -53, -16777216, 4 >>, << -54, -32535022, 233808105 >>,
    << -54, -31505703, 69488760 >>, << -54, -30466786, 189062659 >>,
    << -54, -29418589, 180225486 >>, << -54, -28361431, 121083996 >>,
    << -54, -27295634, 17177295 >>, << -54, -26221522, 43581356 >>,
    << -54, -25139422, 249927302 >>, << -54, -24049665, 265212740 >>,
    << -54, -22952583, 76155905 >>, << -54, -21848509, 52699 >>,
    << -54, -20737779, 120580434 >>, << -54, -19620732, 260298190 >>,
    << -54, -18497709, 221416996 >>, << -54, -17369052, 26412686 >>,
    << -55, -32470207, 48544031 >>, << -55, -30192419, 114148990 >>,
    << -55, -27905434, 205674758 >>, << -55, -25609949, 225862247 >>,
    << -55, -23306663, 235631497 >>, << -55, -20996278, 128471931 >>,
    << -55, -18679497, 109944327 >>, << -56, -32714052, 206529213 >>,
    << -56, -28059145, 188503908 >>, << -56, -23395691, 146964744 >>,
    << -56, -18725110, 225071420 >>, << -57, -28097652, 149932370 >>,
    << -57, -18736524, 167238793 >>, << -58, -18739378, 193584410 >>,
    << -105, -27759508, 211716618 >>, << -58, 18739378, 193584304 >>,
    << -57, 18736524, 167238740 >>, << -57, 28097652, 149932318 >>,
    << -56, 18725110, 225071394 >>, << -56, 23395691, 146964718 >>,
    << -56, 28059145, 188503881 >>, << -56, 32714052, 206529250 >>,
    << -55, 18679497, 109944346 >>, << -55, 20996278, 128471918 >>,
    << -55, 23306663, 235631484 >>, << -55, 25609949, 225862203 >>,
    << -55, 27905434, 205674714 >>, << -55, 30192419, 114148978 >>,
    << -55, 32470207, 48544019 >>, << -54, 17369052, 26412695 >>,
    << -54, 18497709, 221417005 >>, << -54, 19620732, 260298183 >>,
    << -54, 20737779, 120580428 >>, << -54, 21848509, 52693 >>,
    << -54, 22952583, 76155883 >>, << -54, 24049665, 265212719 >>,
    << -54, 25139422, 249927296 >>, << -54, 26221522, 43581350 >>,
    << -54, 27295634, 17177303 >>, << -54, 28361431, 121083990 >>,
    << -54, 29418589, 180225480 >>, << -54, 30466786, 189062654 >>,
    << -54, 31505703, 69488754 >>, << -54, 32535022, 233808099 >>,
    << -53, 16777216, 1 >>, << -53, 17281810, 16637715 >>,
    << -53, 17781139, 246209832 >>, << -53, 18275053, 124811033 >>,
    << -53, 18763400, 68287757 >>, << -53, 19246031, 142363000 >>,
    << -53, 19722800, 74799708 >>, << -53, 20193561, 72728243 >>,
    << -53, 20658171, 29215035 >>, << -53, 21116488, 71858878 >>,
    << -53, 21568373, 37492252 >>, << -53, 22013688, 20467666 >>,
    << -53, 22452297, 115477460 >>, << -53, 22884067, 160209958 >>,
    << -53, 23308867, 14709514 >>, << -53, 23726566, 109001675 >>,
    << -53, 24137038, 111496502 >>, << -53, 24540158, 13134212 >>,
    << -53, 24935802, 137608898 >>, << -53, 25323851, 77667382 >>,
    << -53, 25704186, 47140919 >>, << -53, 26076691, 85304101 >>,
    << -53, 26441253, 66347982 >>, << -53, 26797760, 245529108 >>,
    << -53, 27146105, 194507943 >>, << -53, 27486181, 152405829 >>,
    << -53, 27817884, 229174946 >>, << -53, 28141114, 145633244 >>,
    << -53, 28455772, 47032640 >>, << -53, 28761761, 242674396 >>,
    << -53, 29058990, 140004520 >>, << -53, 29347367, 131283399 >>,
    << -53, 29626804, 258811656 >>, << -53, 29897217, 222112876 >>,
    << -53, 30158523, 190200011 >>, << -53, 30410643, 3004261 >>,
    << -53, 30653498, 251625366 >>, << -53, 30887017, 137127531 >>,
    << -53, 31111127, 160942935 >>, << -53, 31325760, 251639811 >>,
    << -53, 31530852, 38939932 >>, << -53, 31726338, 201241800 >>,
    << -53, 31912161, 54809855 >>, << -53, 32088262, 242998049 >>,
    << -53, 32254590, 56523646 >>, << -53, 32411092, 122208021 >>,
    << -53, 32557721, 259635749 >>, << -53, 32694434, 21923598 >>,
    << -53, 32821187, 41549951 >>, << -53, 32937942, 154711746 >>,
    << -53, 33044664, 209787926 >>, << -53, 33141321, 70247515 >>,
    << -53, 33227882, 154178681 >>, << -53, 33304322, 94518923 >>,
    << -53, 33370617, 83388358 >>, << -53, 33426747, 68687266 >>,
    << -53, 33472695, 24182775 >>, << -53, 33508446, 219342365 >>,
    << -53, 33533991, 146736487 >>, << -53, 33549321, 133541770 >>,
    << -52, 16777216, 0 >> >>

\* an entry of SinDouble or CosDouble as a double
TableDouble(t) ==
    IF t[2] = 0 THEN DZero
    ELSE [neg |-> t[2] < 0,
          m |-> << t[3] % LimbBase, t[3] \div LimbBase,
                   Abs(t[2]) % LimbBase, Abs(t[2]) \div LimbBase >>,
          e |-> t[1]]

(***************************************************************************)
(* Math.atan2 as V8 computes it (fdlibm's e_atan2.c and s_atan.c): the     *)
(* constants are those of fdlibm, written as the entries of SinDouble are. *)
(***************************************************************************)
\* atan(0.5), atan(1), atan(1.5), atan(inf): the leading part and the rest
atanhi == <<
    TableDouble(<< -54, 31114864, 90291023 >>),
    TableDouble(<< -53, 26353589, 71576856 >>),
    TableDouble(<< -53, 32977085, 42071707 >>),
    TableDouble(<< -52, 26353589, 71576856 >>) >>
atanlo == <<
    TableDouble(<< -108, 27441138, 36660706 >>),
    TableDouble(<< -107, 18506339, 51665927 >>),
    TableDouble(<< -108, 16808071, 183552957 >>),
    TableDouble(<< -106, 18506339, 51665927 >>) >>

\* the coefficients 3.33333333333329318027e-01, -1.99999999998764832476e-01,
\* ... of the polynomial
aT == <<
    TableDouble(<< -54, 22369621, 89478413 >>),
    TableDouble(<< -55, -26843545, 161016772 >>),
    TableDouble(<< -55, 19173961, 33588223 >>),
    TableDouble(<< -56, -29826159, 237180529 >>),
    TableDouble(<< -56, 24403164, 88875118 >>),
    TableDouble(<< -56, -20647722, 259299949 >>),
    TableDouble(<< -56, 17880682, 13647185 >>),
    TableDouble(<< -57, -31318741, 48168346 >>),
    TableDouble(<< -57, 26719410, 74845675 >>),
    TableDouble(<< -57, -19612738, 208301103 >>),
    TableDouble(<< -58, 17486766, 52615697 >>) >>

\* 1.5707963267948965580, Math.PI = 3.1415926535897931160 and
\* 1.2246467991473531772e-16
pi_o_2 == TableDouble(<< -52, 26353589, 71576856 >>)
pi == TableDouble(<< -51, 26353589, 71576856 >>)
pi_lo == TableDouble(<< -105, 18506339, 51665927 >>)


\* the values of |x| at which atan changes its reduction: 2^-29, 0.4375,
\* 0.6875, 1.1875, 2.4375 and 2^66
AtanTiny == [neg |-> FALSE, m |-> << 0, 0, 0, 1024 >>, e |-> -81]
AtanSmall == DDiv(DFromInt(7), DFromInt(16))
AtanBelowOne == DDiv(DFromInt(11), DFromInt(16))
AtanAboveOne == DDiv(DFromInt(19), DFromInt(16))
AtanLarge == DDiv(DFromInt(39), DFromInt(16))
AtanHuge == [neg |-> FALSE, m |-> << 0, 0, 0, 1024 >>, e |-> 14]
OneAndHalf == DDiv(DFromInt(3), D2)

\* aT[k] + w * (aT[k + 2] + w * (aT[k + 4] + ...)), to the end of aT, from
\* the innermost sum outward: inner is aT[j] + w * (aT[j + 2] + ...)
RECURSIVE AtanPolyOutward(_, _, _, _)
AtanPolyOutward(w, k, j, inner) ==
    IF isNaN(inner) THEN NaN
    ELSE IF j = k THEN inner
    ELSE AtanPolyOutward(w, k, j - 2, DAdd(aT[j - 2], DMul(w, inner)))

AtanPoly(w, k) ==
    AtanPolyOutward(w, k, Len(aT) - ((Len(aT) - k) % 2), aT[Len(aT) - ((Len(aT) - k) % 2)])

\* s1 = z * (aT[0] + w * (aT[2] + ...)) and s2 = w * (aT[1] + w * (aT[3] + ...))
\* of atan, for z = x * x and w = z * z; the table of the model starts at 1
AtanTerm(z, w, k) == DMul(IF k = 1 THEN z ELSE w, AtanPoly(w, k))

\* the value with the sign of the argument
Signed(neg, value) == IF neg THEN DNeg(value) ELSE value

\* atanhi[id] - ((t - atanlo[id]) - x)
AtanFromTable(x, t, id) == DSub(atanhi[id + 1], DSub(DSub(t, atanlo[id + 1]), x))

\* t = x * (s1 + s2); id = -1 for an argument that was not reduced
AtanResult(x, t, id, neg) ==
    IF id < 0 THEN DSub(x, t) ELSE Signed(neg, AtanFromTable(x, t, id))

AtanSeries(x, z, w, id, neg) ==
    IF isNaN(w) THEN NaN
    ELSE AtanResult(x, DMul(x, DAdd(AtanTerm(z, w, 1), AtanTerm(z, w, 2))), id, neg)
AtanOfSquare(x, z, id, neg) ==
    IF isNaN(z) THEN NaN ELSE AtanSeries(x, z, DMul(z, z), id, neg)

\* the reduced argument x, the interval id it came from, the sign of the
\* argument of atan
AtanReduced(x, id, neg) ==
    IF isNaN(x) THEN NaN ELSE AtanOfSquare(x, DMul(x, x), id, neg)

\* the interval of a = |x|: -1 below 0.4375, 0 below 0.6875, 1 below 1.1875,
\* 2 below 2.4375, 3 from there
AtanInterval(a) ==
    IF DLess(a, AtanSmall) THEN -1
    ELSE IF DLess(a, AtanBelowOne) THEN 0
    ELSE IF DLess(a, AtanAboveOne) THEN 1
    ELSE IF DLess(a, AtanLarge) THEN 2
    ELSE 3

\* the argument of the intervals 0 .. 3 is reduced to (p * a - q) / (r + s * a):
\* (2a - 1) / (2 + a), (a - 1) / (a + 1), (a - 1.5) / (1 + 1.5a) and -1 / a
AtanReduction == <<
    << D2, D1, D2, D1 >>,
    << D1, D1, D1, D1 >>,
    << D1, OneAndHalf, D1, OneAndHalf >>,
    << DZero, D1, DZero, D1 >> >>
AtanArgument(a, c) == DDiv(DSub(DMul(c[1], a), c[2]), DAdd(c[3], DMul(c[4], a)))

\* 2^-29 <= |x| < 2^66
AtanOf(x, id) ==
    AtanReduced(IF id < 0 THEN x ELSE AtanArgument(DAbs(x), AtanReduction[id + 1]), id, x.neg)

\* Math.atan(x)
atan(x) ==
    IF isNaN(x) \/ DIsZero(x) THEN x
    ELSE IF DGreaterEq(DAbs(x), AtanHuge) THEN Signed(x.neg, DAdd(atanhi[4], atanlo[4]))
    ELSE IF DLess(DAbs(x), AtanTiny) THEN x
    ELSE AtanOf(x, AtanInterval(DAbs(x)))

\* the high word of |a|, a # 0: the exponent field and the 20 leading bits
\* of the fraction
HighWord(a) == (a.e + 1075) * 1048576 + (a.m[4] % 1024) * 1024 + a.m[3] \div 16

\* pi - (z - pi_lo), and (z - pi_lo) - pi for a negative y
Atan2Reflected(lower, neg) == DSub(IF neg THEN lower ELSE pi, IF neg THEN pi ELSE lower)

\* m = sign(y) + 2 * sign(x) selects the quadrant of the angle z
Atan2Quadrant(z, m) ==
    IF isNaN(z) THEN NaN
    ELSE IF m = 0 THEN z
    ELSE IF m = 1 THEN DNeg(z)
    ELSE Atan2Reflected(DSub(z, pi_lo), m = 3)

\* the angle of |y / x|; k = (iy - ix) >> 20 compares the exponents of y and
\* x; with x = 1 the angle is atan(y)
Atan2Angle(y, x, k) ==
    IF x # D1 /\ k > 60 THEN DAdd(pi_o_2, DMul(DHalf, pi_lo))
    ELSE IF x # D1 /\ x.neg /\ k < -60 THEN DZero
    ELSE atan(IF x = D1 THEN y ELSE DAbs(DDiv(y, x)))

\* the quadrant m; none with x = 1, and m &= 1 for k > 60
Atan2Sign(y, x, k) ==
    IF x = D1 THEN 0
    ELSE IF k > 60 THEN (IF y.neg THEN 1 ELSE 0)
    ELSE (IF y.neg THEN 1 ELSE 0) + (IF x.neg THEN 2 ELSE 0)

Atan2Ratio(y, x, k) == Atan2Quadrant(Atan2Angle(y, x, k), Atan2Sign(y, x, k))

\* Math.atan2(y, x); a zero is +0
atan2(y, x) ==
    IF isNaN(x) \/ isNaN(y) THEN NaN
    ELSE IF x # D1 /\ DIsZero(y) THEN (IF x.neg THEN pi ELSE y)
    ELSE IF x # D1 /\ DIsZero(x) THEN (IF y.neg THEN DNeg(pi_o_2) ELSE pi_o_2)
    ELSE Atan2Ratio(y, x, (HighWord(y) - HighWord(x)) \div 1048576)

\* vectors.reduce((sum, v) => sum + v.x, 0) and the same for v.y, over the
\* first n hues: x = Math.cos((hue * Math.PI) / 180), y the sine
RECURSIVE sumX(_, _)
sumX(hues, n) ==
    IF n = 0 THEN DZero ELSE DAdd(sumX(hues, n - 1), TableDouble(CosDouble[hues[n] + 1]))
RECURSIVE sumY(_, _)
sumY(hues, n) ==
    IF n = 0 THEN DZero ELSE DAdd(sumY(hues, n - 1), TableDouble(SinDouble[hues[n] + 1]))

\* if (avgHue < 0) avgHue += 360
EnsurePositive(avgHue) == IF DLess(avgHue, DZero) THEN DAdd(avgHue, D360) ELSE avgHue

\* (angle * 180) / Math.PI
ToDegrees(angle) ==
    IF isNaN(angle) THEN NaN ELSE EnsurePositive(DDiv(DMul(angle, D180), pi))

\* (Math.atan2(avgY, avgX) * 180) / Math.PI
MeanAngle(avgX, avgY) ==
    IF isNaN(avgX) \/ isNaN(avgY) THEN NaN ELSE ToDegrees(atan2(avgY, avgX))

\* hues: the h of colord(color).toHsl(), whole degrees in 0..360; the mean
\* is the double of the code
calculateCircularMean(hues) ==
    IF Len(hues) = 0 THEN DZero
    ELSE MeanAngle(DDiv(sumX(hues, Len(hues)), DFromInt(Len(hues))),
                   DDiv(sumY(hues, Len(hues)), DFromInt(Len(hues))))

\* The zones cut at the defaults 66 and 33, whatever thresholds are passed.
separateAtDefaults(colors, highlightThreshold, shadowThreshold) ==
    [highlights |-> SelectSeq(colors, LAMBDA c : toHsl(c).l >= 66),
     midtones |-> SelectSeq(colors, LAMBDA c : ~(toHsl(c).l >= 66) /\ toHsl(c).l >= 33),
     shadows |-> SelectSeq(colors, LAMBDA c : ~(toHsl(c).l >= 66) /\ ~(toHsl(c).l >= 33))]

\* The zones with a color on a threshold put in the darker zone.
separateAboveThresholds(colors, highlightThreshold, shadowThreshold) ==
    [highlights |-> SelectSeq(colors, LAMBDA c : toHsl(c).l > highlightThreshold),
     midtones |-> SelectSeq(colors, LAMBDA c : /\ ~(toHsl(c).l > highlightThreshold)
                                              /\ toHsl(c).l > shadowThreshold),
     shadows |-> SelectSeq(colors, LAMBDA c : /\ ~(toHsl(c).l > highlightThreshold)
                                             /\ ~(toHsl(c).l > shadowThreshold))]

separateIntoThreeGroups(colors, highlightThreshold, shadowThreshold) ==
    [highlights |-> SelectSeq(colors, LAMBDA c : toHsl(c).l >= highlightThreshold),
     midtones |-> SelectSeq(colors, LAMBDA c : /\ ~(toHsl(c).l >= highlightThreshold)
                                              /\ toHsl(c).l >= shadowThreshold),
     shadows |-> SelectSeq(colors, LAMBDA c : /\ ~(toHsl(c).l >= highlightThreshold)
                                             /\ ~(toHsl(c).l >= shadowThreshold))]

\* ((hue % 360) + 360) % 360
normalizeHue(hue) == DMod(DAdd(DMod(hue, D360), D360), D360)

\* h1 + (diff * factor), normalized
interpolated(h1, diff, factor) ==
    IF isNaN(diff) THEN NaN ELSE normalizeHue(DAdd(h1, DMul(diff, factor)))

\* The blend of two hues along the number line, without the wraparound.
interpolateHueLinear(hue1, hue2, factor) ==
    IF isNaN(hue1) \/ isNaN(hue2) \/ isNaN(factor) THEN NaN
    ELSE interpolated(normalizeHue(hue1), DSub(normalizeHue(hue2), normalizeHue(hue1)), factor)

\* diff = h2 - h1 taken the short way round
shortestPath(h1, diff, factor) ==
    IF DGreater(diff, D180) THEN interpolated(h1, DSub(diff, D360), factor)
    ELSE IF DLess(diff, DNeg(D180)) THEN interpolated(h1, DAdd(diff, D360), factor)
    ELSE interpolated(h1, diff, factor)

normalizedBlend(h1, h2, factor) ==
    IF isNaN(h1) \/ isNaN(h2) THEN NaN ELSE shortestPath(h1, DSub(h2, h1), factor)

\* a hue or a factor that is not a number makes the result NaN
interpolateHue(hue1, hue2, factor) ==
    IF isNaN(hue1) \/ isNaN(hue2) \/ isNaN(factor) THEN NaN
    ELSE normalizedBlend(normalizeHue(hue1), normalizeHue(hue2), factor)

\* tripleHueConfig?.enabled as a truth value
ConfigEnabled(tripleHueConfig) ==
    IsDefined(tripleHueConfig) /\ Get(tripleHueConfig).enabled

\* value ?? fallback
OrElse(opt, fallback) == IF IsDefined(opt) THEN Get(opt) ELSE fallback

HueList(colors) == [i \in 1..Len(colors) |-> toHsl(colors[i]).h]

NoZones ==
    [highlightHue |-> Undefined, midtoneHue |-> Undefined, shadowHue |-> Undefined,
     highlightColors |-> Undefined, midtoneColors |-> Undefined,
     shadowColors |-> Undefined]

\* the hue of one zone: the circular mean of its colors' hues, undefined for
\* a zone without colors
zoneHue(zoneColors) ==
    IF Len(zoneColors) > 0 THEN Some(calculateCircularMean(HueList(zoneColors)))
    ELSE Undefined

\* The fallback taken from the last available zone hue instead of the first.
fillZoneHuesFromLast(avgHue, highlightHue, midtoneHue, shadowHue) ==
    LET availableHues == highlightHue \o midtoneHue \o shadowHue
        fallbackHue == IF availableHues = << >> THEN avgHue
                       ELSE availableHues[Len(availableHues)]
    IN  [highlightHue |-> OrElse(highlightHue, fallbackHue),
         midtoneHue |-> OrElse(midtoneHue, fallbackHue),
         shadowHue |-> OrElse(shadowHue, fallbackHue)]

\* the fallback logic: a missing zone hue becomes the first available one,
\* or avgHue when all three are missing
fillZoneHues(avgHue, highlightHue, midtoneHue, shadowHue) ==
    LET availableHues == highlightHue \o midtoneHue \o shadowHue
        fallbackHue == IF availableHues = << >> THEN avgHue ELSE availableHues[1]
    IN  [highlightHue |-> OrElse(highlightHue, fallbackHue),
         midtoneHue |-> OrElse(midtoneHue, fallbackHue),
         shadowHue |-> OrElse(shadowHue, fallbackHue)]

\* the midtone blended with the average of shadow and highlight
blendMidtone(hues) ==
    [hues EXCEPT !.midtoneHue =
        interpolateHue(@, interpolateHue(hues.shadowHue, hues.highlightHue, DHalf), DHalf)]

\* the result in triple-hue mode
withZones(baseResult, zones, hues) ==
    baseResult @@
    [highlightHue |-> Some(hues.highlightHue), midtoneHue |-> Some(hues.midtoneHue),
     shadowHue |-> Some(hues.shadowHue),
     highlightColors |-> Some(zones.highlights),
     midtoneColors |-> Some(zones.midtones),
     shadowColors |-> Some(zones.shadows)]

\* triple-hue mode: the zones of the chromatic colors and their hues
tripleHueResult(baseResult, zones) ==
    withZones(baseResult, zones,
              blendMidtone(fillZoneHues(baseResult.avgHue, zoneHue(zones.highlights),
                                        zoneHue(zones.midtones), zoneHue(zones.shadows))))

\* total / count for a sum of whole numbers
meanOf(total, count) == DDiv(DFromInt(total), DFromInt(count))

\* avgHue, avgChroma and avgLightness of the chromatic colors
baseResultOf(hslValues) ==
    [avgHue |-> calculateCircularMean([i \in 1..Len(hslValues) |-> hslValues[i].h]),
     avgChroma |-> meanOf(SumSeq([i \in 1..Len(hslValues) |-> hslValues[i].s]),
                          Len(hslValues)),
     avgLightness |-> meanOf(SumSeq([i \in 1..Len(hslValues) |-> hslValues[i].l]),
                             Len(hslValues))]

\* the chromatic branch, for the colors with saturation >= 15
chromaticResult(chromaticColors, hueCategory, tripleHueConfig, tables) ==
    IF Len(chromaticColors) = 0
    THEN [avgHue |-> DFromInt(HueInfo(hueCategory, tables).hue),
          avgChroma |-> DFromInt(50), avgLightness |-> DFromInt(50)] @@ NoZones
    ELSE IF ~ConfigEnabled(tripleHueConfig)
    THEN baseResultOf([i \in 1..Len(chromaticColors) |-> toHsl(chromaticColors[i])]) @@ NoZones
    ELSE tripleHueResult(
             baseResultOf([i \in 1..Len(chromaticColors) |-> toHsl(chromaticColors[i])]),
             separateIntoThreeGroups(chromaticColors,
                                     OrElse(Get(tripleHueConfig).highlightThreshold, 66),
                                     OrElse(Get(tripleHueConfig).shadowThreshold, 33)))

calculateAverageHSL(colors, hueCategory, tripleHueConfig, tables) ==
    IF Len(colors) = 0
    THEN [avgHue |-> DZero, avgChroma |-> DZero, avgLightness |-> DZero] @@ NoZones
    ELSE IF hueCategory = "gray"
    THEN [avgHue |-> DFromInt(210), avgChroma |-> DFromInt(5),
          avgLightness |->
              meanOf(SumSeq([i \in 1..Len(colors) |-> toHsl(colors[i]).l]),
                     Len(colors))] @@ NoZones
    ELSE chromaticResult(SelectSeq(colors, LAMBDA c : toHsl(c).s >= GrayThreshold),
                         hueCategory, tripleHueConfig, tables)
(***************************************************************************)
(* Shade synthesizer (utils/colorSchemeGenerator).                         *)
(***************************************************************************)
\* A lightness curve in equal steps.
evenLightnessSteps == << 96, 87, 78, 69, 60, 51, 42, 33, 24, 16 >>

lightnessSteps == << 96, 90, 82, 70, 56, 45, 37, 29, 22, 16 >>

\* Math.abs(a - b) > 5
moreThanFiveApart(a, b) == DGreater(DAbs(DSub(a, b)), DFromInt(5))

useTripleHue(tripleHueMode, highlightHue, midtoneHue, shadowHue) ==
    /\ IsDefined(tripleHueMode) /\ Get(tripleHueMode)
    /\ IsDefined(highlightHue)
    /\ IsDefined(midtoneHue)
    /\ IsDefined(shadowHue)
    /\ \/ moreThanFiveApart(Get(highlightHue), Get(midtoneHue))
       \/ moreThanFiveApart(Get(midtoneHue), Get(shadowHue))

\* the factors 0.7 and 0.85 of the code: the doubles nearest to 7/10 and 17/20
VeryLightFactor == DDiv(DFromInt(7), DFromInt(10))
LightFactor == DDiv(DFromInt(17), DFromInt(20))

chromaAt(numericChroma, lightness) ==
    IF lightness > 85 THEN DMul(numericChroma, VeryLightFactor)
    ELSE IF lightness > 75 THEN DMul(numericChroma, LightFactor)
    ELSE IF lightness > 35 THEN numericChroma
    ELSE IF lightness > 20 THEN DMul(numericChroma, LightFactor)
    ELSE DMul(numericChroma, VeryLightFactor)

\* numericChroma = Math.min(100, Math.max(0, Number(baseChroma)))
getChromaForLightness(baseChroma, lightness) ==
    chromaAt(MathMin(D100, MathMax(DZero, baseChroma)), lightness)

\* Math.max(0, Math.min(1, (lightness - from) / (to - from)))
zoneFactor(lightness, from, to) ==
    MathMax(DZero, MathMin(D1, DDiv(DFromInt(lightness - from), DFromInt(to - from))))

\* the medium shades: factor = (lightness - 40) / (75 - 40)
mediumHueFromHighlight(factor, highlightHue, midtoneHue, shadowHue) ==
    IF DLess(factor, DHalf) THEN interpolateHue(shadowHue, midtoneHue, DMul(factor, D2))
    ELSE interpolateHue(highlightHue, midtoneHue, DMul(DSub(factor, DHalf), D2))

\* The light shades blended from the highlight hue toward the midtone hue.
tripleHueFromHighlight(lightness, highlightHue, midtoneHue, shadowHue) ==
    IF lightness >= 75
    THEN interpolateHue(highlightHue, midtoneHue, zoneFactor(lightness, 75, 96))
    ELSE IF lightness >= 40
    THEN mediumHueFromHighlight(DDiv(DFromInt(lightness - 40), DFromInt(75 - 40)),
                                highlightHue, midtoneHue, shadowHue)
    ELSE interpolateHue(shadowHue, midtoneHue, zoneFactor(lightness, 16, 40))

\* the medium shades: factor = (lightness - 40) / (75 - 40); localFactor is
\* factor * 2 below a half and (factor - 0.5) * 2 from there
mediumHue(factor, highlightHue, midtoneHue, shadowHue) ==
    IF DLess(factor, DHalf) THEN interpolateHue(shadowHue, midtoneHue, DMul(factor, D2))
    ELSE interpolateHue(midtoneHue, highlightHue, DMul(DSub(factor, DHalf), D2))

\* hueToUse of the three-zone branch
tripleHueAt(lightness, highlightHue, midtoneHue, shadowHue) ==
    IF lightness >= 75
    THEN interpolateHue(midtoneHue, highlightHue, zoneFactor(lightness, 75, 96))
    ELSE IF lightness >= 40
    THEN mediumHue(DDiv(DFromInt(lightness - 40), DFromInt(75 - 40)),
                   highlightHue, midtoneHue, shadowHue)
    ELSE interpolateHue(shadowHue, midtoneHue, zoneFactor(lightness, 16, 40))

\* The gray shades tinted with the base hue.
shadeHslTinted(lightness, baseHue, baseChroma, hueCategory, tripleHueMode, highlightHue, midtoneHue, shadowHue) ==
    [h |-> IF hueCategory # "gray" /\ useTripleHue(tripleHueMode, highlightHue, midtoneHue, shadowHue)
           THEN tripleHueAt(lightness, Get(highlightHue), Get(midtoneHue), Get(shadowHue))
           ELSE normalizeHue(baseHue),
     s |-> IF hueCategory = "gray" THEN DFromInt(8)
           ELSE MathMin(D100, MathMax(DZero, getChromaForLightness(baseChroma, lightness))),
     l |-> Min(100, Max(0, lightness))]

\* The { h, s, l } handed to colord for the shade of one lightness step
shadeHsl(lightness, baseHue, baseChroma, hueCategory, tripleHueMode, highlightHue, midtoneHue, shadowHue) ==
    IF hueCategory = "gray"
    THEN [h |-> DFromInt(210), s |-> DFromInt(8), l |-> lightness]
    ELSE [h |-> IF useTripleHue(tripleHueMode, highlightHue, midtoneHue, shadowHue)
                THEN tripleHueAt(lightness, Get(highlightHue), Get(midtoneHue),
                                 Get(shadowHue))
                ELSE normalizeHue(baseHue),
          s |-> MathMin(D100, MathMax(DZero, getChromaForLightness(baseChroma, lightness))),
          l |-> Min(100, Max(0, lightness))]

\* colord({ h, s, l }).toHex()
hslToHex(hsl) == fromHsl(hsl.h, hsl.s, hsl.l)

generateOpenColorShades(baseHue, baseChroma, hueCategory, tripleHueMode, highlightHue, midtoneHue, shadowHue) ==
    [i \in 1..Len(lightnessSteps) |->
        hslToHex(shadeHsl(lightnessSteps[i], baseHue, baseChroma, hueCategory,
                          tripleHueMode, highlightHue, midtoneHue, shadowHue))]

(***************************************************************************)
(* Orchestration (utils/colorSchemeGenerator).                             *)
(***************************************************************************)
\* Array.prototype.sort with comparator (a, b) => key(a) - key(b), a stable
\* sort, on a list of [key, value]: e goes behind the entries with its key.
RECURSIVE InsertSorted(_, _)
InsertSorted(sorted, e) ==
    IF sorted = << >> THEN << e >>
    ELSE IF e.key < Head(sorted).key THEN << e >> \o sorted
    ELSE << Head(sorted) >> \o InsertSorted(Tail(sorted), e)

RECURSIVE SortByKey(_)
SortByKey(s) ==
    IF s = << >> THEN << >>
    ELSE InsertSorted(SortByKey(SubSeq(s, 1, Len(s) - 1)), s[Len(s)])

\* .sort((a, b) => getSpectralIndex(a.hue) - getSpectralIndex(b.hue))
sortBySpectralIndex(hueAnalyses, tables) ==
    LET sorted == SortByKey([i \in 1..Len(hueAnalyses) |->
                                [key |-> getSpectralIndex(hueAnalyses[i].hue, tables),
                                 value |-> hueAnalyses[i]]])
    IN  [i \in 1..Len(sorted) |-> sorted[i].value]

\* .sort((a, b) => a.distance - b.distance)
sortByDistance(matches) ==
    LET sorted == SortByKey([i \in 1..Len(matches) |->
                                [key |-> matches[i].distance, value |-> matches[i]]])
    IN  [i \in 1..Len(sorted) |-> sorted[i].value]

\* colors.find(c => c.hexValue === hexColor)?.occurrences.length || 0
occurrencesOf(colors, hexColor) ==
    IF \E i \in 1..Len(colors) : colors[i].hexValue = hexColor
    THEN colors[CHOOSE i \in 1..Len(colors) :
                    /\ colors[i].hexValue = hexColor
                    /\ \A j \in 1..(i - 1) : colors[j].hexValue # hexColor].occurrences
    ELSE 0

groupUsage(colors, hueColors) ==
    SumSeq([i \in 1..Len(hueColors) |-> occurrencesOf(colors, hueColors[i])])

\* A filter that keeps the families without members too.
isAnyGroup(hueColors) == Len(hueColors) >= 0

\* .filter(([, hueColors]) => !A.isEmpty(hueColors))
isNonEmptyGroup(hueColors) == Len(hueColors) > 0

\* .filter(analysis => analysis.usage > 0)
\* A gate that lets every family with members through.
hasMembers(analysis) == analysis.usage >= 0

hasUsage(analysis) == analysis.usage > 0

\* The entry of a family with avgHue taken from the hue field of the record of
\* its first member instead of from the hexValues.
analyzeHueFromRecordHue(colors, hue, hueColors, tripleHueConfig, tables) ==
    [[hue |-> hue, colors |-> hueColors, usage |-> groupUsage(colors, hueColors)]
        @@ calculateAverageHSL(hueColors, hue, tripleHueConfig, tables)
     EXCEPT !.avgHue =
        DFromInt(colors[CHOOSE i \in 1..Len(colors) :
                   /\ colors[i].hexValue = hueColors[1]
                   /\ \A j \in 1..(i - 1) : colors[j].hexValue # hueColors[1]].hue)]

analyzeHue(colors, hue, hueColors, tripleHueConfig, tables) ==
    [hue |-> hue, colors |-> hueColors, usage |-> groupUsage(colors, hueColors)]
        @@ calculateAverageHSL(hueColors, hue, tripleHueConfig, tables)

\* hueAnalyses.reduce((sum, analysis) => sum + analysis.avgChroma, 0) over the
\* first n entries
RECURSIVE chromaSum(_, _)
chromaSum(hueAnalyses, n) ==
    IF n = 0 THEN DZero ELSE DAdd(chromaSum(hueAnalyses, n - 1), hueAnalyses[n].avgChroma)

\* the mean of avgChroma over hueAnalyses: 0 / 0 = NaN when there is none
globalChromaOf(hueAnalyses) ==
    DDiv(chromaSum(hueAnalyses, Len(hueAnalyses)), DFromInt(Len(hueAnalyses)))

\* tripleHueConfig?.enabled
enabledOf(tripleHueConfig) == IF IsDefined(tripleHueConfig) THEN Some(Get(tripleHueConfig).enabled) ELSE Undefined

schemeOf(analysis, globalChroma, enabled, tables) ==
    [hue |-> analysis.hue,
     name |-> HueInfo(analysis.hue, tables).name,
     shades |-> generateOpenColorShades(analysis.avgHue,
                    MathMax(analysis.avgChroma, globalChroma), analysis.hue,
                    enabled, analysis.highlightHue, analysis.midtoneHue,
                    analysis.shadowHue),
     analysis |-> analysis,
     tripleHueMode |-> enabled]

generateScheme(analysis, globalChroma, tripleHueConfig, tables) == schemeOf(analysis, globalChroma, enabledOf(tripleHueConfig), tables)

\* hexColors = colors.map(c => c.hexValue)
hexColorsOf(colors) == [i \in 1..Len(colors) |-> colors[i].hexValue]

\* openColorMapping[hex] = findClosestOpenColor(hex), one key per hexValue
openColorMappingOf(hexColors, tables) == [hex \in {hexColors[i] : i \in 1..Len(hexColors)} |-> findClosestOpenColor(hex, tables)]

\* Object.entries(groupedColors).filter(...).map(([hue, hueColors]) => ...)
\*     .sort(by spectral index), over the families nonEmpty
hueAnalysesOf(colors, groupedColors, nonEmpty, tripleHueConfig, tables) == sortBySpectralIndex([i \in 1..Len(nonEmpty) |-> analyzeHue(colors, nonEmpty[i], groupedColors[nonEmpty[i]], tripleHueConfig, tables)], tables)

\* hueAnalyses.filter(analysis => analysis.usage > 0).map(generateScheme)
generatedSchemesOf(used, globalChroma, tripleHueConfig, tables) == [i \in 1..Len(used) |-> generateScheme(used[i], globalChroma, tripleHueConfig, tables)]

\* the returned ColorSchemeAnalysis
schemeAnalysis(colors, hexColors, hueAnalyses, tripleHueConfig, tables) == [totalColors |-> Len(colors), hueAnalyses |-> hueAnalyses, generatedSchemes |-> generatedSchemesOf(SelectSeq(hueAnalyses, hasUsage), globalChromaOf(hueAnalyses), tripleHueConfig, tables), openColorMapping |-> openColorMappingOf(hexColors, tables), tripleHueConfig |-> tripleHueConfig]

\* the analysis from the families groupedColors of the hexValues
analysisOfGroups(colors, hexColors, groupedColors, tripleHueConfig, tables) == schemeAnalysis(colors, hexColors, hueAnalysesOf(colors, groupedColors, SelectSeq(HueKeys(tables), LAMBDA hue : isNonEmptyGroup(groupedColors[hue])), tripleHueConfig, tables), tripleHueConfig, tables)

\* the analysis of the hexValues hexColors
analysisOfHexColors(colors, hexColors, tripleHueConfig, tables) == analysisOfGroups(colors, hexColors, groupColorsByOpenColorHue(hexColors, tables), tripleHueConfig, tables)

\* colorData: Object.values(colorData), a sequence of ColorData records
analyzeColorsForSchemeGeneration(colorData, tripleHueConfig, tables) == analysisOfHexColors(colorData, hexColorsOf(colorData), tripleHueConfig, tables)

(***************************************************************************)
(* Scheme matcher (utils/colorSchemeGenerator).                            *)
(***************************************************************************)
Infinity == 1000000000

\* A composite name with the shade index first.
colorNameShadeFirst(hue, shadeIndex) == ToString(shadeIndex) \o "-" \o hue

\* `${hue}-${shadeIndex}`
colorNameOf(hue, shadeIndex) == hue \o "-" \o ToString(shadeIndex)

\* A match that reports the shade index counted from one.
matchOfOneBased(inputColor, scheme, shadeIndex) ==
    [color |-> scheme.shades[shadeIndex + 1],
     hue |-> scheme.hue,
     shade |-> shadeIndex + 1,
     schemeName |-> scheme.name,
     distance |-> calculateColorDistance(inputColor, scheme.shades[shadeIndex + 1]),
     colorName |-> colorNameOf(scheme.hue, shadeIndex)]

matchOf(inputColor, scheme, shadeIndex) ==
    [color |-> scheme.shades[shadeIndex + 1],
     hue |-> scheme.hue,
     shade |-> shadeIndex,
     schemeName |-> scheme.name,
     distance |-> calculateColorDistance(inputColor, scheme.shades[shadeIndex + 1]),
     colorName |-> colorNameOf(scheme.hue, shadeIndex)]

\* every shade of every scheme as a match, in scheme-then-shade iteration order
RECURSIVE allMatches(_, _)
allMatches(inputColor, schemes) ==
    IF schemes = << >> THEN << >>
    ELSE [i \in 1..Len(Head(schemes).shades) |-> matchOf(inputColor, Head(schemes), i - 1)]
         \o allMatches(inputColor, Tail(schemes))

\* A matcher loop that lets a later shade at the same distance win (<= for <).
RECURSIVE closestLoopLastWins(_, _)
closestLoopLastWins(candidates, closestMatch) ==
    IF candidates = << >> THEN closestMatch
    ELSE IF Head(candidates).distance <= closestMatch.distance
         THEN closestLoopLastWins(Tail(candidates), Head(candidates))
         ELSE closestLoopLastWins(Tail(candidates), closestMatch)

\* if (distance < closestMatch.distance) closestMatch = ..., over the candidates
RECURSIVE closestLoop(_, _)
closestLoop(candidates, closestMatch) ==
    IF candidates = << >> THEN closestMatch
    ELSE IF Head(candidates).distance < closestMatch.distance
         THEN closestLoop(Tail(candidates), Head(candidates))
         ELSE closestLoop(Tail(candidates), closestMatch)

\* A default match at the light end of the gray family.
defaultMatchLightest ==
    [color |-> Hex(255, 255, 255), hue |-> "gray", shade |-> 0, schemeName |-> "Gray",
     distance |-> Infinity, colorName |-> "gray-0"]

defaultMatch ==
    [color |-> Hex(0, 0, 0), hue |-> "gray", shade |-> 9, schemeName |-> "Gray",
     distance |-> Infinity, colorName |-> "gray-9"]

findClosestSchemeColor(inputColor, analysis) ==
    closestLoop(allMatches(inputColor, analysis.generatedSchemes), defaultMatch)

\* Array.prototype.slice(0, end): a negative end counts from the end of the
\* array
sliceTo(array, end) ==
    SubSeq(array, 1, IF end < 0 THEN Max(Len(array) + end, 0) ELSE Min(end, Len(array)))

\* count is optional and defaults to 5
findClosestSchemeColors(inputColor, analysis, count) ==
    sliceTo(sortByDistance(allMatches(inputColor, analysis.generatedSchemes)),
            OrElse(count, 5))

\* the match before the loop over the shades; scheme.shades[0] is undefined
\* for a scheme without shades
firstShadeMatch(scheme) ==
    [color |-> IF Len(scheme.shades) = 0 THEN Undefined ELSE scheme.shades[1],
     hue |-> scheme.hue, shade |-> 0, schemeName |-> scheme.name,
     distance |-> Infinity, colorName |-> colorNameOf(scheme.hue, 0)]

\* null is Undefined
findClosestColorInHue(inputColor, hue, analysis) ==
    LET found == SelectSeq(analysis.generatedSchemes, LAMBDA s : s.hue = hue)
    IN  IF found = << >> THEN Undefined
        ELSE Some(closestLoop(allMatches(inputColor, << Head(found) >>),
                              firstShadeMatch(Head(found))))


(***************************************************************************)
(* Export and complete palette (utils/colorSchemeGenerator).               *)
(***************************************************************************)
\* The exported text is kept as its lines, each line as its fragments: the
\* text is the fragments of a line written one after the other (a shade as
\* '#rrggbb'), and the lines joined by '\n'.
exportLinesCss(scheme) ==
    [i \in 1..Len(scheme.shades) |->
        << "  --color-" \o scheme.hue \o "-" \o ToString(i - 1) \o ": ", scheme.shades[i], ";" >>]

exportLinesScss(scheme) ==
    [i \in 1..Len(scheme.shades) |->
        << "$color-" \o scheme.hue \o "-" \o ToString(i - 1) \o ": ", scheme.shades[i], ";" >>]

\* the header, the lines of the shades joined by '\n', and the footer, with
\* a '\n' on either side of the joined lines: without shades the joined lines
\* are the empty string, which stands as an empty line between the two
exportLinesTailwind(scheme) ==
    << << "'" \o scheme.hue \o "': {" >> >>
        \o (IF Len(scheme.shades) = 0 THEN << << "" >> >>
            ELSE [i \in 1..Len(scheme.shades) |->
                     << "  " \o ToString(i - 1) \o "0: '", scheme.shades[i], "'," >>])
        \o << << "}," >> >>

\* JSON.stringify({ [hue]: { 0: shade0, ..., 9: shade9 } }, null, 2), which
\* writes the object without a shade as {} on the line of its key
exportLinesJson(scheme) ==
    IF Len(scheme.shades) = 0
    THEN << << "{" >>, << "  \"" \o scheme.hue \o "\": {}" >>, << "}" >> >>
    ELSE << << "{" >>, << "  \"" \o scheme.hue \o "\": {" >> >>
             \o [i \in 1..Len(scheme.shades) |->
                    << "    \"" \o ToString(i - 1) \o "\": \"", scheme.shades[i],
                       IF i < Len(scheme.shades) THEN "\"," ELSE "\"" >>]
             \o << << "  }" >>, << "}" >> >>

exportColorScheme(scheme, format) ==
    CASE format = "css" -> exportLinesCss(scheme)
      [] format = "scss" -> exportLinesScss(scheme)
      [] format = "tailwind" -> exportLinesTailwind(scheme)
      [] format = "json" -> exportLinesJson(scheme)
      [] OTHER -> << >>

\* palette[hue] after the two forEach loops: a copy of the reference shades,
\* replaced by the shades of the generated scheme of that family
shadesOrReference(hue, own, tables) ==
    IF own = << >> THEN PaletteOf(hue, tables) ELSE own[Len(own)].shades

paletteEntry(hue, generatedSchemes, tables) ==
    shadesOrReference(hue, SelectSeq(generatedSchemes,
                          LAMBDA scheme : scheme.hue = hue /\ scheme.analysis.usage >= 1), tables)

paletteFrom(generatedSchemes, tables) ==
    [hue \in OpenColorHue(tables) |-> paletteEntry(hue, generatedSchemes, tables)]

generateCompleteOpenColorPalette(colorData, tripleHueConfig, tables) ==
    paletteFrom(analyzeColorsForSchemeGeneration(colorData, tripleHueConfig, tables).generatedSchemes, tables)

(***************************************************************************)
(* The statements of the engine that write into an object (an assignment   *)
(* to a property or an element, push, sort), each with the object it       *)
(* writes into.  The objects that outlive a call are the caller's color    *)
(* map, "colorData", and the module's tables, "OPEN_COLOR_HUES",           *)
(* "OPEN_COLOR_PALETTE" and "SPECTRAL_ORDER"; every other object is Fresh: *)
(* made during the call by a literal ({}, []) or by a function that        *)
(* returns a new array (Object.values, Object.entries, map, filter,        *)
(* [...spread]).  A write into an object that outlives the call carries    *)
(* what the object holds after it.                                         *)
(***************************************************************************)
Fresh == "fresh"

WriteInto(object, statement) == [object |-> object, statement |-> statement]

\* grouped is the {} of part_015:281 and grouped[closestHue] the [] of 285
groupColorsByOpenColorHueWrites ==
    << WriteInto(Fresh, "grouped[hue] = []"),
       WriteInto(Fresh, "grouped[closestHue].push(color)") >>

\* highlights, midtones and shadows are the [] of part_014:216-218
separateIntoThreeGroupsWrites ==
    << WriteInto(Fresh, "highlights.push(color)"),
       WriteInto(Fresh, "midtones.push(color)"),
       WriteInto(Fresh, "shadows.push(color)") >>

\* the sort of part_014:584 sorts the array that map returned
analyzeColorsForSchemeGenerationWrites ==
    groupColorsByOpenColorHueWrites \o separateIntoThreeGroupsWrites
        \o << WriteInto(Fresh, "hueAnalyses.sort(bySpectralIndex)") >>

\* OPEN_COLOR_PALETTE with the shades of result written into it
paletteTable(result, tables) ==
    [i \in 1..Len(tables.OPEN_COLOR_PALETTE) |->
        [key |-> tables.OPEN_COLOR_PALETTE[i].key,
         shades |-> result[tables.OPEN_COLOR_PALETTE[i].key]]]

\* a write into palette, the object that the two loops of
\* generateCompleteOpenColorPalette fill and that holds result in the end
WriteIntoPalette(palette, statement, result, tables) ==
    IF palette = Fresh THEN WriteInto(Fresh, statement)
    ELSE [object |-> palette, statement |-> statement, after |-> paletteTable(result, tables)]

\* palette is the {} of part_014:675
generateCompleteOpenColorPaletteWrites(palette, result, tables) ==
    analyzeColorsForSchemeGenerationWrites
        \o << WriteIntoPalette(palette, "palette[hue] = [...shades]", result, tables),
              WriteIntoPalette(palette, "palette[scheme.hue] = scheme.shades", result, tables) >>

\* matches is the [] of part_014:760
findClosestSchemeColorsWrites ==
    << WriteInto(Fresh, "matches.push(match)"), WriteInto(Fresh, "matches.sort(byDistance)") >>

\* findClosestSchemeColor, findClosestColorInHue and exportColorScheme assign
\* to local variables only
NoWrites == << >>

\* the objects that outlive the call after the write statements
RECURSIVE ApplyWrites(_, _)
ApplyWrites(objects, writes) ==
    IF writes = << >> THEN objects
    ELSE ApplyWrites(IF Head(writes).object = Fresh THEN objects
                     ELSE [objects EXCEPT ![Head(writes).object] = Head(writes).after],
                     Tail(writes))

(***************************************************************************)
(* Upload path (components/FileUpload) and dashboard metrics               *)
(* (utils/colorUtils).                                                     *)
(*                                                                         *)
(* A parsed JSON value is [kind, entries]: kind "object" with the entries  *)
(* in key order, or "array", "null", "number".  An entry is                *)
(* [isObject, hexValue, occurrences, aliases, usagePattern,                *)
(* primaryCategory]; a missing property is Undefined, hexValue a color     *)
(* string or EmptyString, occurrences the length of the list or JsonNull,  *)
(* aliases the lengths of designTokens and tailwindClasses.                *)
(***************************************************************************)
\* the JSON value null
JsonNull == -3

\* the values of a property that are falsy: '' and null
Falsy == { EmptyString, JsonNull }

\* the truthiness of color.hexValue and of color.occurrences: a missing
\* property (undefined), '' and null are falsy; a color string and a list,
\* the empty list too, are truthy
IsTruthy(property) == IsDefined(property) /\ Get(property) \notin Falsy

\* R.Ok(value), R.Error(error)
Ok(value) == [ok |-> TRUE, value |-> value]
Error(error) == [ok |-> FALSE, error |-> error]

\* the first entry alone is looked at: an object whose hexValue and
\* occurrences are truthy
validateColorData(data) ==
    IF data.kind # "object" THEN Error("Invalid JSON format")
    ELSE IF Len(data.entries) = 0 THEN Ok(data.entries)
    ELSE IF /\ Head(data.entries).isObject
            /\ IsTruthy(Head(data.entries).hexValue)
            /\ IsTruthy(Head(data.entries).occurrences)
    THEN Ok(data.entries)
    ELSE Error("Invalid color data format. Expected color analysis JSON.")

\* R.fromExecution(() => JSON.parse(text)) with the error mapped to its
\* message; text is [parses, json, message], message being the message of
\* the SyntaxError that JSON.parse throws for a text that is no JSON
parseJson(text) == IF text.parses THEN Ok(text.json) ELSE Error(text.message)

\* R.flatMap(validateColorData)
flatMapValidate(parsed) == IF parsed.ok THEN validateColorData(parsed.value) ELSE parsed

\* R.match(onUpload, onError): the calls of the two callbacks
matchCallbacks(result) ==
    IF result.ok THEN [onUpload |-> << result.value >>, onError |-> << >>]
    ELSE [onUpload |-> << >>, onError |-> << result.error >>]

\* handleFiles(files, onError, setIsLoading, onUpload) up to the await of
\* file.text(): the calls of onError and setIsLoading, and the file whose
\* text is awaited; a file is [name, text], name "json" for a name that ends
\* with '.json'
handleFilesUntilAwait(files) ==
    IF Len(files) = 0
    THEN [onError |-> << >>, setIsLoading |-> << >>, awaited |-> << >>]
    ELSE IF files[1].name # "json"
    THEN [onError |-> << "Please select a JSON file" >>, setIsLoading |-> << >>,
          awaited |-> << >>]
    ELSE [onError |-> << >>, setIsLoading |-> << TRUE >>, awaited |-> << files[1] >>]

\* handleFiles after file.text() has given the text: the calls of the two
\* callbacks
handleFilesWithText(text) == matchCallbacks(flatMapValidate(parseJson(text)))

\* handleFiles after file.text() was rejected with error, [isError, message]:
\* the catch block
handleFilesCatch(error) ==
    [onUpload |-> << >>,
     onError |-> << IF error.isError THEN error.message ELSE "Failed to parse JSON file" >>]

\* the result of a call that throws a TypeError
TypeError == [threw |-> "TypeError"]

\* color.aliases?.designTokens?.length > 0 || color.aliases?.tailwindClasses?.length > 0
\*     || color.usagePattern === 'global-design-system'
isDesignTokenColor(color) ==
    \/ IsDefined(color.aliases) /\ Get(color.aliases).designTokens > 0
    \/ IsDefined(color.aliases) /\ Get(color.aliases).tailwindClasses > 0
    \/ color.usagePattern = "global-design-system"

isInlineColor(color) == color.primaryCategory = "inline-style"

\* Math.round(x), which keeps NaN
MathRound(x) == IF isNaN(x) THEN NaN ELSE DFromInt(DMathRound(x))

\* Math.round((designTokenColors / colors.length) * 100)
coveragePercentageOf(designTokenColors, count) ==
    MathRound(DMul(DDiv(DFromInt(designTokenColors), DFromInt(count)), D100))

\* the metrics of colors that all have an occurrences list
metricsOf(colors, designTokenColors, inlineColors) ==
    [totalColors |-> Len(colors),
     totalOccurrences |-> SumSeq([i \in 1..Len(colors) |-> Get(colors[i].occurrences)]),
     designTokenColors |-> designTokenColors,
     inlineColors |-> inlineColors,
     coveragePercentage |-> coveragePercentageOf(designTokenColors, Len(colors)),
     orphanedColors |-> inlineColors,
     recommendedTokens |-> Min(inlineColors, 20)]

\* colorData: Object.values(colorData); color.occurrences.length throws for
\* an entry whose occurrences is undefined or null
calculateAnalysisMetrics(colorData) ==
    IF \E i \in 1..Len(colorData) :
           ~IsDefined(colorData[i].occurrences) \/ Get(colorData[i].occurrences) = JsonNull
    THEN TypeError
    ELSE metricsOf(colorData, Len(SelectSeq(colorData, isDesignTokenColor)),
                   Len(SelectSeq(colorData, isInlineColor)))
(***************************************************************************)
(* The callers.  Spec: a color map is uploaded entry by entry, analyzed    *)
(* under a multi-zone configuration, and the scheme set is queried.        *)
(* SpecRepeat: the same map is analyzed again and again under changing     *)
(* configurations with queries in between.  SpecClassify: the classifier   *)
(* and the grouping are called on their own.                               *)
(***************************************************************************)
VARIABLES
    colorData,        \* Object.values of the uploaded ColorDataMap, in key order
    tripleHueConfig,  \* the TripleHueConfig of the last analysis (or undefined)
    pc,               \* "upload" | "analyzed" | "queried"
    analysis,         \* the ColorSchemeAnalysis last returned (or undefined)
    lastCall,         \* the last matcher call and its result (or undefined)
    earlier,          \* the first analysis call of a run: its config and result
    classified,       \* the last classifier call: [hexColor, hue] (or undefined)
    grouped,          \* the last grouping call: [colors, result] (or undefined)
    tables,           \* what the module-level objects OPEN_COLOR_HUES,
                      \* OPEN_COLOR_PALETTE and SPECTRAL_ORDER hold
    twin,             \* a second color map, built entry by entry along with colorData
    isLoading,        \* the isLoading state of the FileUpload component
    reading           \* the files whose file.text() is pending, in the order of the calls

vars == << colorData, tripleHueConfig, pc, analysis, lastCall, earlier,
           classified, grouped, tables, twin, isLoading, reading >>

\* the objects that outlive an engine call, after the write statements of
\* the call
ObjectsAfter(writes) ==
    ApplyWrites([colorData |-> colorData,
                 OPEN_COLOR_HUES |-> tables.OPEN_COLOR_HUES,
                 OPEN_COLOR_PALETTE |-> tables.OPEN_COLOR_PALETTE,
                 SPECTRAL_ORDER |-> tables.SPECTRAL_ORDER], writes)

\* the effect of an engine call on the caller's color map and on the
\* module's tables: that of its write statements
Written(writes) ==
    /\ colorData' = ObjectsAfter(writes).colorData
    /\ tables' = [OPEN_COLOR_HUES |-> ObjectsAfter(writes).OPEN_COLOR_HUES,
                  OPEN_COLOR_PALETTE |-> ObjectsAfter(writes).OPEN_COLOR_PALETTE,
                  SPECTRAL_ORDER |-> ObjectsAfter(writes).SPECTRAL_ORDER]

\* Colors the uploaded maps are made of: '#868e96', '#64748b', '#87ceeb',
\* '#3c7cb4', '#33cc69', '#ff1a40'
PoolColors == { Hex(134,142,150), Hex(100,116,139), Hex(135,206,235),
                Hex(60,124,180), Hex(51,204,105), Hex(255,26,64) }

\* the colors the matchers are queried with: the pool and a color halfway
\* between two neighbouring gray shades
QueryColors == PoolColors \cup { Hex(120,129,138) }

\* occurrences.length of a record
OccurrenceCounts == { 0, 1 }

\* one ColorData record: hexValue and the length of its occurrences list
ColorRecord(hexValue, occurrences) ==
    [hexValue |-> hexValue, occurrences |-> occurrences]

\* analyzeColorsForSchemeGeneration(colorData) of the palette page, the switch
\* of the scheme generator page off, { enabled: true }, and both thresholds
\* of the TripleHueConfig at 50
ConfigChoices ==
    { Undefined,
      Some([enabled |-> FALSE, highlightThreshold |-> Some(66), shadowThreshold |-> Some(33)]),
      Some([enabled |-> TRUE, highlightThreshold |-> Undefined, shadowThreshold |-> Undefined]),
      Some([enabled |-> TRUE, highlightThreshold |-> Some(50), shadowThreshold |-> Some(50)]) }

\* the count of findClosestSchemeColors: left out, 1, 5, and a negative one
CountChoices == { Undefined, Some(1), Some(5), Some(-1) }

QueryHues == { "gray", "blue", "red" }

\* Colors handed to the classifier on its own: a lattice of the RGB cube, the
\* pool, '#888888', colors half way between two reference hues (hue 221,
\* 251, 277, 311, 344), colors at the saturation threshold, and hue 360.
Levels == { 0, 51, 102, 153, 204, 255 }

ClassifyColors ==
    { Hex(r, g, b) : r \in Levels, g \in Levels, b \in Levels }
        \cup PoolColors
        \cup { Hex(136,136,136), Hex(51,99,204), Hex(79,51,204), Hex(145,51,204),
               Hex(204,51,176), Hex(204,51,92), Hex(110,128,146), Hex(109,128,147),
               Hex(255,0,1) }

RECURSIVE SeqRange(_)
SeqRange(s) == IF s = << >> THEN {} ELSE { Head(s) } \cup SeqRange(Tail(s))

SchemeShades(a) ==
    UNION { SeqRange(a.generatedSchemes[i].shades) : i \in 1..Len(a.generatedSchemes) }

\* every list of at most n pool colors
RECURSIVE ColorLists(_)
ColorLists(n) ==
    IF n = 0 THEN { << >> }
    ELSE ColorLists(n - 1) \cup
         { Append(s, c) : s \in { t \in ColorLists(n - 1) : Len(t) = n - 1 }, c \in PoolColors }

Init ==
    /\ colorData = << >>
    /\ tripleHueConfig = Undefined
    /\ pc = "upload"
    /\ analysis = Undefined
    /\ lastCall = Undefined
    /\ earlier = Undefined
    /\ classified = Undefined
    /\ grouped = Undefined
    /\ tables = ModuleTables
    /\ twin = << >>
    /\ isLoading = FALSE
    /\ reading = << >>

\* one more entry of the uploaded JSON object
AddColor(hexValue, occurrences) ==
    /\ pc = "upload"
    /\ Len(colorData) < MaxColors
    /\ colorData' = Append(colorData, ColorRecord(hexValue, occurrences))
    /\ UNCHANGED << tripleHueConfig, pc, analysis, lastCall, earlier, classified, grouped, tables, twin, isLoading, reading >>

Analyze(config) ==
    /\ pc = "upload"
    /\ analysis' = Some(analyzeColorsForSchemeGeneration(colorData, config, tables))
    /\ tripleHueConfig' = config
    /\ pc' = "analyzed"
    /\ Written(analyzeColorsForSchemeGenerationWrites)
    /\ UNCHANGED << lastCall, earlier, classified, grouped, twin, isLoading, reading >>

FindClosestSchemeColor(inputColor) ==
    /\ pc = "analyzed"
    /\ pc' = "queried"
    /\ lastCall' = Some([op |-> "findClosestSchemeColor", inputColor |-> inputColor,
                         hue |-> Undefined, count |-> Undefined,
                         result |-> findClosestSchemeColor(inputColor, Get(analysis))])
    /\ Written(NoWrites)
    /\ UNCHANGED << tripleHueConfig, analysis, earlier, classified, grouped, twin, isLoading, reading >>

FindClosestSchemeColors(inputColor, count) ==
    /\ pc = "analyzed"
    /\ pc' = "queried"
    /\ lastCall' = Some([op |-> "findClosestSchemeColors", inputColor |-> inputColor,
                         hue |-> Undefined, count |-> count,
                         result |-> findClosestSchemeColors(inputColor, Get(analysis), count)])
    /\ Written(findClosestSchemeColorsWrites)
    /\ UNCHANGED << tripleHueConfig, analysis, earlier, classified, grouped, twin, isLoading, reading >>

FindClosestColorInHue(inputColor, hue) ==
    /\ pc = "analyzed"
    /\ pc' = "queried"
    /\ lastCall' = Some([op |-> "findClosestColorInHue", inputColor |-> inputColor,
                         hue |-> Some(hue), count |-> Undefined,
                         result |-> findClosestColorInHue(inputColor, hue, Get(analysis))])
    /\ Written(NoWrites)
    /\ UNCHANGED << tripleHueConfig, analysis, earlier, classified, grouped, twin, isLoading, reading >>

Next ==
    \/ \E c \in PoolColors, n \in OccurrenceCounts : AddColor(c, n)
    \/ \E config \in ConfigChoices : Analyze(config)
    \/ /\ pc = "analyzed"
       /\ \E q \in QueryColors \cup SchemeShades(Get(analysis)) : FindClosestSchemeColor(q)
    \/ \E q \in PoolColors, count \in CountChoices : FindClosestSchemeColors(q, count)
    \/ \E q \in PoolColors, hue \in QueryHues : FindClosestColorInHue(q, hue)

Spec == Init /\ [][Next]_vars

\* The first analysis of a run, remembered with its input, its config and
\* its result.
AnalyzeFirst(config) ==
    /\ pc = "upload"
    /\ analysis' = Some(analyzeColorsForSchemeGeneration(colorData, config, tables))
    /\ tripleHueConfig' = config
    /\ pc' = "analyzed"
    /\ earlier' = Some([input |-> colorData, config |-> config, result |-> Get(analysis'),
                        lastInput |-> colorData, otherConfig |-> FALSE,
                        otherInput |-> FALSE])
    /\ Written(analyzeColorsForSchemeGenerationWrites)
    /\ UNCHANGED << lastCall, classified, grouped, twin, isLoading, reading >>

\* what is remembered of the run after a later analysis of input under config
Remembered(input, config) ==
    Some([Get(earlier) EXCEPT !.lastInput = input,
                              !.otherConfig = @ \/ config # Get(earlier).config,
                              !.otherInput = @ \/ input # Get(earlier).input])

\* A later analysis whose list of schemes is not cleared between calls: the
\* schemes of the analysis made before stay in front of the new ones.
AnalyzeAgainKeepingSchemes(input, config) ==
    /\ pc \in { "analyzed", "queried" }
    /\ analysis' = Some([analyzeColorsForSchemeGeneration(input, config, tables) EXCEPT
                            !.generatedSchemes = Get(analysis).generatedSchemes \o @])
    /\ tripleHueConfig' = config
    /\ pc' = "analyzed"
    /\ earlier' = Remembered(input, config)
    /\ Written(analyzeColorsForSchemeGenerationWrites)
    /\ UNCHANGED << lastCall, classified, grouped, twin, isLoading, reading >>

\* Any later analysis, of the map of the first analysis or of another map,
\* after analyses, queries and palette generations.
AnalyzeAgain(input, config) ==
    /\ pc \in { "analyzed", "queried" }
    /\ analysis' = Some(analyzeColorsForSchemeGeneration(input, config, tables))
    /\ tripleHueConfig' = config
    /\ pc' = "analyzed"
    /\ earlier' = Remembered(input, config)
    /\ Written(analyzeColorsForSchemeGenerationWrites)
    /\ UNCHANGED << lastCall, classified, grouped, twin, isLoading, reading >>

\* '#87ceeb', '#ff1a40'
RepeatColors == { Hex(135,206,235), Hex(255,26,64) }

\* '#64748b'
RepeatQueries == { Hex(100,116,139) }

\* no config, and { enabled: true }
RepeatConfigs ==
    { Undefined,
      Some([enabled |-> TRUE, highlightThreshold |-> Undefined, shadowThreshold |-> Undefined]) }

\* the map that is analyzed between two analyses of the uploaded map: a
\* '#3c7cb4' and a '#868e96' without occurrence
OtherMaps ==
    { << ColorRecord(Hex(60,124,180), 1), ColorRecord(Hex(134,142,150), 0) >> }

\* findClosestOpenColorHue(hexColor) called on its own
Classify(hexColor) ==
    /\ classified' = Some([hexColor |-> hexColor, hue |-> findClosestOpenColorHue(hexColor, tables)])
    /\ grouped' = Undefined
    /\ Written(NoWrites)
    /\ UNCHANGED << tripleHueConfig, pc, analysis, lastCall, earlier, twin, isLoading, reading >>

\* groupColorsByOpenColorHue(colors) called on its own
GroupColors(colors) ==
    /\ grouped' = Some([colors |-> colors, result |-> groupColorsByOpenColorHue(colors, tables)])
    /\ classified' = Undefined
    /\ Written(groupColorsByOpenColorHueWrites)
    /\ UNCHANGED << tripleHueConfig, pc, analysis, lastCall, earlier, twin, isLoading, reading >>

NextClassify ==
    \/ \E c \in ClassifyColors : Classify(c)
    \/ \E colors \in ColorLists(MaxColors) : GroupColors(colors)

SpecClassify == Init /\ [][NextClassify]_vars


(***************************************************************************)
(* SpecEngine: after the upload, the entry points of the engine are called *)
(* in any order, any number of times.                                      *)
(***************************************************************************)
\* '#64748b', '#87ceeb', '#ff1a40'
EngineColors == { Hex(100,116,139), Hex(135,206,235), Hex(255,26,64) }

\* the four formats of the type, and a string outside of it
ExportFormats == { "css", "scss", "json", "tailwind", "xml" }

AnalyzeColors(config) ==
    /\ analysis' = Some(analyzeColorsForSchemeGeneration(colorData, config, tables))
    /\ tripleHueConfig' = config
    /\ pc' = "analyzed"
    /\ Written(analyzeColorsForSchemeGenerationWrites)
    /\ UNCHANGED << lastCall, earlier, classified, grouped, twin, isLoading, reading >>

\* generateCompleteOpenColorPalette(colorData, config) with palette, the
\* object that its two loops fill, being the object named
GenerateCompleteOpenColorPaletteInto(palette, config) ==
    /\ pc # "upload"
    /\ lastCall' = Some([op |-> "generateCompleteOpenColorPalette", config |-> config,
                         result |-> generateCompleteOpenColorPalette(colorData, config, tables)])
    /\ Written(generateCompleteOpenColorPaletteWrites(palette, Get(lastCall').result, tables))
    /\ UNCHANGED << tripleHueConfig, pc, analysis, earlier, classified, grouped, twin, isLoading, reading >>

\* The complete palette built by writing the generated shades into the
\* reference table itself instead of into a new object: const palette =
\* OPEN_COLOR_PALETTE for const palette = {}.
GenerateCompleteOpenColorPaletteInPlace(config) ==
    GenerateCompleteOpenColorPaletteInto("OPEN_COLOR_PALETTE", config)

GenerateCompleteOpenColorPalette(config) ==
    GenerateCompleteOpenColorPaletteInto(Fresh, config)

\* SpecRepeat: the uploaded map is analyzed; then it and other maps are
\* analyzed under either config, the schemes are queried and the complete
\* palette is generated, in any order.
NextRepeat ==
    \/ \E c \in RepeatColors : AddColor(c, 1)
    \/ \E config \in RepeatConfigs : AnalyzeFirst(config)
    \/ \E input \in { colorData } \cup OtherMaps, config \in RepeatConfigs :
           AnalyzeAgain(input, config)
    \/ \E q \in RepeatQueries : FindClosestSchemeColor(q)
    \/ GenerateCompleteOpenColorPalette(Undefined)

SpecRepeat == Init /\ [][NextRepeat]_vars

\* exportColorScheme(analysis.generatedSchemes[i - 1], format)
ExportColorScheme(i, format) ==
    /\ pc # "upload"
    /\ i \in 1..Len(Get(analysis).generatedSchemes)
    /\ lastCall' = Some([op |-> "exportColorScheme", scheme |-> i, format |-> format,
                         result |-> exportColorScheme(Get(analysis).generatedSchemes[i], format)])
    /\ Written(NoWrites)
    /\ UNCHANGED << tripleHueConfig, pc, analysis, earlier, classified, grouped, twin, isLoading, reading >>

\* a matcher called again on the same analysis
QueryAgain ==
    /\ pc = "queried"
    /\ pc' = "analyzed"
    /\ UNCHANGED << colorData, tripleHueConfig, analysis, lastCall, earlier, classified, grouped, tables, twin, isLoading, reading >>

NextEngine ==
    \/ \E c \in EngineColors : AddColor(c, 1)
    \/ \E config \in RepeatConfigs : AnalyzeColors(config)
    \/ \E config \in RepeatConfigs : GenerateCompleteOpenColorPalette(config)
    \/ \E i \in 1..MaxColors, format \in ExportFormats : ExportColorScheme(i, format)
    \/ \E q \in RepeatQueries : FindClosestSchemeColor(q)
    \/ \E q \in RepeatQueries, count \in CountChoices : FindClosestSchemeColors(q, count)
    \/ \E q \in RepeatQueries, hue \in QueryHues : FindClosestColorInHue(q, hue)
    \/ QueryAgain

SpecEngine == Init /\ [][NextEngine]_vars

(***************************************************************************)
(* SpecMeta: two color maps are uploaded side by side.  Their entries have *)
(* the same hexValue and the same number of occurrences, in the same       *)
(* order; the keys and the other fields of the records are chosen freely.  *)
(* Both maps are then analyzed under the same configuration.               *)
(***************************************************************************)
\* the fields of a ColorData record next to hexValue and occurrences, and
\* the prefix of the key the record is stored under
MetaChoices ==
    { [keyPrefix |-> "light-blue-", hue |-> 195, primaryCategory |-> "brand",
       usagePattern |-> "global-design-system",
       representations |-> "hex", aliases |-> << >>],
      [keyPrefix |-> "c", hue |-> 0, primaryCategory |-> "neutral",
       usagePattern |-> "one-off-usage",
       representations |-> "rgb", aliases |-> << "$primary" >>] }

\* '#87ceeb', the same color spelled '#87CEEB', and '#3c7cb4'
MetaColors == { Hex(135,206,235), HexUpper(135,206,235), Hex(60,124,180) }

\* one entry of a ColorDataMap: the record and its key
ColorEntry(index, hexValue, occurrences, meta) ==
    [key |-> meta.keyPrefix \o ToString(index), hexValue |-> hexValue,
     occurrences |-> occurrences, hue |-> meta.hue,
     primaryCategory |-> meta.primaryCategory, usagePattern |-> meta.usagePattern,
     representations |-> meta.representations, aliases |-> meta.aliases]

AddEntryPair(hexValue, occurrences, meta, twinMeta) ==
    /\ pc = "upload"
    /\ Len(colorData) < MaxColors
    /\ colorData' = Append(colorData,
                           ColorEntry(Len(colorData) + 1, hexValue, occurrences, meta))
    /\ twin' = Append(twin, ColorEntry(Len(twin) + 1, hexValue, occurrences, twinMeta))
    /\ UNCHANGED << tripleHueConfig, pc, analysis, lastCall, earlier, classified, grouped, tables, isLoading, reading >>

AnalyzeBoth(config) ==
    /\ pc = "upload"
    /\ analysis' = Some(analyzeColorsForSchemeGeneration(colorData, config, tables))
    /\ lastCall' = Some([op |-> "analyzeColorsForSchemeGeneration", config |-> config,
                         result |-> analyzeColorsForSchemeGeneration(twin, config, tables)])
    /\ tripleHueConfig' = config
    /\ pc' = "analyzed"
    /\ Written(analyzeColorsForSchemeGenerationWrites)
    /\ UNCHANGED << earlier, classified, grouped, twin, isLoading, reading >>

NextMeta ==
    \/ \E c \in MetaColors, n \in OccurrenceCounts, meta \in MetaChoices, twinMeta \in MetaChoices :
           AddEntryPair(c, n, meta, twinMeta)
    \/ \E config \in RepeatConfigs : AnalyzeBoth(config)

SpecMeta == Init /\ [][NextMeta]_vars

(***************************************************************************)
(* SpecHue: the two hue primitives, called on their own.                   *)
(***************************************************************************)
\* a decimal literal with four digits after the point, as the double that
\* stands for it
Decimal(tenThousandths) == DDiv(DFromInt(tenThousandths), DFromInt(10000))

\* whole hues in degrees: both sides of the seam, the quarter turns, hues
\* half a turn apart, the hue of '#87ceeb', and hues outside of one turn
WholeHues == { -10, 0, 1, 10, 90, 170, 180, 190, 197, 270, 350, 359, 360, 370, 730 }

\* the largest double below 360, which is 360 - 2^-44 = 359.99999999999994
JustBelowFullTurn == DSub(D360, DDiv(D1, DMul(DFromInt(4194304), DFromInt(4194304))))

\* hues that are no whole degrees: 310.4272 and 130.4272, half a turn
\* apart, 41.1493 and -138.8507, 0.1, the mean hue the engine computes
\* for a single color of hue 195, which is 194.99999999999997, and the
\* largest hue below 360
FractionalHues ==
    { Decimal(3104272), Decimal(1304272), Decimal(411493), Decimal(-1388507), Decimal(1000),
      calculateCircularMean(<< 195 >>), JustBelowFullTurn }

HueInputs == { DFromInt(hue) : hue \in WholeHues } \cup FractionalHues

\* factors: 0, 0.25, 0.5, 2/3, 1, and outside of [0, 1]
FactorInputs ==
    { DZero, DDiv(D1, DFromInt(4)), DHalf, DDiv(D2, DFromInt(3)), D1, DDiv(DFromInt(3), D2),
      DNeg(DHalf) }

\* lists of hues in degrees
HueListInputs ==
    { << >>, << 0 >>, << 10 >>, << 197 >>, << 350 >>, << 350, 10 >>, << 10, 350 >>,
      << 355, 5 >>, << 359, 1 >>, << 0, 90, 180, 270 >>, << 0, 180 >>, << 90, 270 >>,
      << 197, 208 >>, << 350, 350 >>, << 10, 30 >>, << 340, 350 >>, << 170, 190 >>,
      << 90, 180 >>, << 0, 90 >>, << 270, 0 >>, << 197, 197, 208 >>,
      << 1, 359 >>, << 12, 348 >>, << 360 >>, << 10, 190 >>, << 0, 120, 240 >>,
      << 45, 224 >>, << 200, 21 >>, << 195 >>, << 200 >>, << 205 >> }

\* the calls of interpolateHue and of calculateCircularMean that are made
InterpolateHueCalls ==
    { [op |-> "arguments", of |-> "interpolateHue", hue1 |-> hue1, hue2 |-> hue2,
       factor |-> factor] :
          hue1 \in HueInputs, hue2 \in HueInputs, factor \in FactorInputs }

CalculateCircularMeanCalls ==
    { [op |-> "arguments", of |-> "calculateCircularMean", hues |-> hues] :
          hues \in HueListInputs }

\* the arguments of one call are drawn
InitHue ==
    /\ \/ \E call \in InterpolateHueCalls : lastCall = Some(call)
       \/ \E call \in CalculateCircularMeanCalls : lastCall = Some(call)
    /\ colorData = << >>
    /\ tripleHueConfig = Undefined
    /\ pc = "upload"
    /\ analysis = Undefined
    /\ earlier = Undefined
    /\ classified = Undefined
    /\ grouped = Undefined
    /\ tables = ModuleTables
    /\ twin = << >>
    /\ isLoading = FALSE
    /\ reading = << >>

\* the arguments of a call of the function fn are pending
Pending(fn) == Get(lastCall).op = "arguments" /\ Get(lastCall).of = fn

InterpolateHue ==
    /\ Pending("interpolateHue")
    /\ lastCall' = Some([op |-> "interpolateHue", hue1 |-> Get(lastCall).hue1,
                         hue2 |-> Get(lastCall).hue2, factor |-> Get(lastCall).factor,
                         result |-> interpolateHue(Get(lastCall).hue1, Get(lastCall).hue2,
                                                   Get(lastCall).factor)])
    /\ UNCHANGED << colorData, tripleHueConfig, pc, analysis, earlier, classified, grouped, tables, twin, isLoading, reading >>

CalculateCircularMean ==
    /\ Pending("calculateCircularMean")
    /\ lastCall' = Some([op |-> "calculateCircularMean", hues |-> Get(lastCall).hues,
                         result |-> calculateCircularMean(Get(lastCall).hues)])
    /\ UNCHANGED << colorData, tripleHueConfig, pc, analysis, earlier, classified, grouped, tables, twin, isLoading, reading >>

NextHue == InterpolateHue \/ CalculateCircularMean

SpecHue == InitHue /\ [][NextHue]_vars

(***************************************************************************)
(* SpecZones: maps made for the lightness zones are analyzed.              *)
(***************************************************************************)
\* sampleColorData of the dual-hue script, in key order: '#87CEEB' (hue 197,
\* lightness 73), '#ADD8E6' (195, 79), '#4682B4' (207, 49), '#2F4F4F' (180,
\* 25, a cyan) and '#191970' (240, 27, an indigo)
sampleColorData ==
    << HexUpper(135,206,235), HexUpper(173,216,230), HexUpper(70,130,180),
       HexUpper(47,79,79), Hex(25,25,112) >>

\* the config of the second call of the script,
\* { enabled: true, separationLightness: 50 }: the engine reads no
\* separationLightness, and the thresholds are missing
ScriptConfig ==
    Some([enabled |-> TRUE, highlightThreshold |-> Undefined, shadowThreshold |-> Undefined,
          separationLightness |-> 50])

\* five blue colors with the lightness the comments of the script give for
\* its sample, 80, 85, 55, 30, 25: '#add6eb' (hue 200), '#c2ddf0' (205),
\* '#5388c6' (212), '#265273' (206), '#1a3b66' (214)
FiveBlues ==
    << Hex(173,214,235), Hex(194,221,240), Hex(83,136,198), Hex(38,82,115), Hex(26,59,102) >>

\* three greens of hue 130 whose lightness is on a threshold: '#7dd48b' (66),
\* '#33cc4c' (50), '#2a7e38' (33)
ThresholdGreens == { Hex(125,212,139), Hex(51,204,76), Hex(42,126,56) }

\* two colors of hue 260 on both sides of the saturation threshold:
\* '#615775' (saturation 14.7, rounded to 15) and '#7a6e91' (13.7, rounded
\* to 14)
NearGrays == { Hex(97,87,117), Hex(122,110,145) }

\* the blue colors, two reds on both sides of the seam ('#ff1940', hue 350,
\* and '#ff4019', hue 10, both of lightness 55), the greens on the lightness
\* thresholds, the colors at the saturation threshold, the gray '#868e96',
\* and a hexValue that is no color
ZoneColors ==
    SeqRange(FiveBlues) \cup ThresholdGreens \cup NearGrays
        \cup { Hex(255,25,64), Hex(255,64,25), Hex(134,142,150), Unparseable }

\* every list of at most n zone colors
RECURSIVE ZoneLists(_)
ZoneLists(n) ==
    IF n = 0 THEN { << >> }
    ELSE ZoneLists(n - 1) \cup
         { Append(s, c) : s \in { t \in ZoneLists(n - 1) : Len(t) = n - 1 }, c \in ZoneColors }

\* three blues, one per lightness zone, whose zone hues are the means of a
\* single hue each: '#addbeb' (hue 195, lightness 80), '#3399cc' (200, 50),
\* '#143852' (205, 20)
ThreeBlues == << Hex(173,219,235), Hex(51,153,204), Hex(20,56,82) >>

\* three limes of hue 88, 84 and 94 with two, two and one occurrence:
\* '#6fcb04', '#71ab23', '#314720'
ThreeLimes ==
    << ColorRecord(Hex(111,203,4), 2), ColorRecord(Hex(113,171,35), 2),
       ColorRecord(Hex(49,71,32), 1) >>

\* the uploaded maps: the sample of the script, the five blues, the three
\* blues and every map of at most MaxColors zone colors, each record with
\* one occurrence; and the three limes
ZoneMaps ==
    { [i \in 1..Len(list) |-> ColorRecord(list[i], 1)] :
          list \in ZoneLists(MaxColors) \cup { sampleColorData, FiveBlues, ThreeBlues } }
        \cup { ThreeLimes }

InitZones ==
    /\ colorData \in ZoneMaps
    /\ tripleHueConfig = Undefined
    /\ pc = "upload"
    /\ analysis = Undefined
    /\ lastCall = Undefined
    /\ earlier = Undefined
    /\ classified = Undefined
    /\ grouped = Undefined
    /\ tables = ModuleTables
    /\ twin = << >>
    /\ isLoading = FALSE
    /\ reading = << >>

NextZones == \E config \in ConfigChoices \cup { ScriptConfig } : Analyze(config)

SpecZones == InitZones /\ [][NextZones]_vars

(***************************************************************************)
(* The shade synthesizer called on its own.                                *)
(***************************************************************************)
\* the mode flag absent and the zone hues absent, the flag true and the
\* zone hues 200 / 210 / 220, or the flag true and the zone hues the engine
\* computes for single colors of hue 195, 200 and 205
ModeChoices ==
    { [tripleHueMode |-> Undefined, zoneHues |-> << Undefined, Undefined, Undefined >>],
      [tripleHueMode |-> Some(TRUE),
       zoneHues |-> << Some(DFromInt(200)), Some(DFromInt(210)), Some(DFromInt(220)) >>],
      [tripleHueMode |-> Some(TRUE),
       zoneHues |-> << Some(calculateCircularMean(<< 195 >>)), Some(DFromInt(200)),
                       Some(calculateCircularMean(<< 205 >>)) >>] }

\* the arguments of a call: base hues 210 and 25, chroma 5, 60 and NaN, the
\* gray family and a chromatic one, and the mode
ShadeCalls ==
    { [baseHue |-> baseHue, baseChroma |-> baseChroma, hueCategory |-> hueCategory,
       tripleHueMode |-> mode.tripleHueMode, zoneHues |-> mode.zoneHues] :
          baseHue \in { DFromInt(210), DFromInt(25) },
          baseChroma \in { DFromInt(5), DFromInt(60), NaN },
          hueCategory \in { "gray", "orange" },
          mode \in ModeChoices }

\* one call; the call before it is kept for comparison, and two calls are
\* made
GenerateOpenColorShades(call) ==
    /\ ~IsDefined(earlier)
    /\ earlier' = lastCall
    /\ lastCall' = Some([op |-> "generateOpenColorShades", call |-> call,
                         result |-> generateOpenColorShades(call.baseHue, call.baseChroma,
                                        call.hueCategory, call.tripleHueMode,
                                        call.zoneHues[1], call.zoneHues[2],
                                        call.zoneHues[3])])
    /\ UNCHANGED << colorData, tripleHueConfig, pc, analysis, classified, grouped, tables, twin, isLoading, reading >>

NextShades == \E call \in ShadeCalls : GenerateOpenColorShades(call)

SpecShades == Init /\ [][NextShades]_vars

(***************************************************************************)
(* Families in display order.                                              *)
(***************************************************************************)
\* the reference colors of gray, red, pink, blue and orange: '#868e96',
\* '#ff6b6b', '#f06595', '#339af0', '#ff922b'
OrderColors ==
    { Hex(134,142,150), Hex(255,107,107), Hex(240,101,149), Hex(51,154,240), Hex(255,146,43) }

\* a map with the reference color of every family, in the key order of
\* OPEN_COLOR_HUES; the pink and the teal record have no occurrence
AllFamilies ==
    [i \in 1..Len(OPEN_COLOR_HUES) |->
        ColorRecord(OPEN_COLOR_HUES[i].color,
                    IF OPEN_COLOR_HUES[i].key \in { "pink", "teal" } THEN 0 ELSE 1)]

\* every list of at most n records of an order color
RECURSIVE OrderLists(_)
OrderLists(n) ==
    IF n = 0 THEN { << >> }
    ELSE OrderLists(n - 1) \cup
         { Append(s, ColorRecord(c, o)) :
               s \in { t \in OrderLists(n - 1) : Len(t) = n - 1 },
               c \in OrderColors, o \in OccurrenceCounts }

OrderMaps == OrderLists(MaxColors) \cup { AllFamilies }

\* the families getSpectralIndex is asked for: the known ones and one that
\* is in no table
FamilyInputs == SeqRange(SPECTRAL_ORDER) \cup { "magenta" }

InitOrder ==
    /\ colorData \in OrderMaps
    /\ tripleHueConfig = Undefined
    /\ pc = "upload"
    /\ analysis = Undefined
    /\ lastCall = Undefined
    /\ earlier = Undefined
    /\ classified = Undefined
    /\ grouped = Undefined
    /\ tables = ModuleTables
    /\ twin = << >>
    /\ isLoading = FALSE
    /\ reading = << >>

\* getSpectralIndex(hue), as the display calls it on the families of an
\* analysis
GetSpectralIndex(hue) ==
    /\ pc = "analyzed"
    /\ lastCall' = Some([op |-> "getSpectralIndex", hue |-> hue,
                         result |-> getSpectralIndex(hue, tables)])
    /\ Written(NoWrites)
    /\ UNCHANGED << tripleHueConfig, pc, analysis, earlier, classified, grouped, twin, isLoading, reading >>

NextOrder ==
    \/ \E config \in ConfigChoices : Analyze(config)
    \/ \E hue \in FamilyInputs : GetSpectralIndex(hue)

SpecOrder == InitOrder /\ [][NextOrder]_vars

(***************************************************************************)
(* Upload of a file and the metrics of the dashboard.                      *)
(***************************************************************************)
\* a map entry that is an object
JsonRecord(hexValue, occurrences, aliases, usagePattern, primaryCategory) ==
    [isObject |-> TRUE, hexValue |-> hexValue, occurrences |-> occurrences,
     aliases |-> aliases, usagePattern |-> usagePattern,
     primaryCategory |-> primaryCategory]

\* entries of uploaded maps: a color with a design token, a color of the
\* global design system without aliases, an inline color without
\* occurrence (occurrences: []), a record without occurrences, a record
\* without hexValue, a record whose hexValue is '', a record whose
\* occurrences is null, and an entry that is a string
TokenColor ==
    JsonRecord(Some(Hex(51,154,240)), Some(1),
               Some([designTokens |-> 1, tailwindClasses |-> 0]),
               "component-specific", "brand")

GlobalColor ==
    JsonRecord(Some(Hex(134,142,150)), Some(2), Undefined, "global-design-system", "semantic")

InlineColor ==
    JsonRecord(Some(Hex(255,107,107)), Some(0),
               Some([designTokens |-> 0, tailwindClasses |-> 0]),
               "one-off-usage", "inline-style")

WithoutOccurrences ==
    JsonRecord(Some(Hex(0,0,0)), Undefined, Undefined, "one-off-usage", "inline")

WithoutHexValue == JsonRecord(Undefined, Some(1), Undefined, "one-off-usage", "inline")

EmptyHexValue == JsonRecord(Some(EmptyString), Some(1), Undefined, "one-off-usage", "inline")

NullOccurrences ==
    JsonRecord(Some(Hex(0,0,0)), Some(JsonNull), Undefined, "one-off-usage", "inline")

StringEntry ==
    [isObject |-> FALSE, hexValue |-> Undefined, occurrences |-> Undefined,
     aliases |-> Undefined, usagePattern |-> "", primaryCategory |-> ""]

\* the entries of the JSON objects in the files: the empty object, maps whose
\* entries all have hexValue and occurrences, maps whose second entry lacks
\* occurrences, is a string, or has the hexValue '' or the occurrences null,
\* and maps whose first entry lacks hexValue, lacks occurrences, is a string,
\* or has the hexValue '' or the occurrences null
JsonObjects ==
    { << >>, << TokenColor >>, << InlineColor, GlobalColor >>,
      << GlobalColor, WithoutOccurrences >>, << TokenColor, StringEntry >>,
      << TokenColor, EmptyHexValue >>, << GlobalColor, NullOccurrences >>,
      << WithoutHexValue, TokenColor >>, << WithoutOccurrences >>, << StringEntry >>,
      << EmptyHexValue, TokenColor >>, << NullOccurrences >> }

\* the text 'not json'; the message is the one of the SyntaxError of V8
NotJson ==
    [parses |-> FALSE, json |-> [kind |-> "null", entries |-> << >>],
     message |-> "Unexpected token 'o', \"not json\" is not valid JSON"]

\* the text of a file: a JSON object, JSON that is no object, and text that
\* is no JSON
FileTexts ==
    { [parses |-> TRUE, json |-> [kind |-> "object", entries |-> entries], message |-> ""] :
          entries \in JsonObjects }
    \cup { [parses |-> TRUE, json |-> [kind |-> kind, entries |-> << >>], message |-> ""] :
               kind \in { "array", "null" } }
    \cup { NotJson }

\* a file whose name ends with '.json', and one whose name does not
JsonFile(text) == [name |-> "json", text |-> text]
TextFile(text) == [name |-> "txt", text |-> text]

\* the files handed to handleFiles: none, one file, and two files of which
\* the first is the one that is read
FileLists ==
    { << >> } \cup { << JsonFile(text) >> : text \in FileTexts }
    \cup { << TextFile(text) >> : text \in { t \in FileTexts : Len(t.json.entries) = 1 } }
    \cup { << JsonFile(NotJson), TextFile(NotJson) >> }

\* what file.text() is rejected with: a DOMException, which is an Error, and
\* a value that is no Error
ReadErrors ==
    { [isError |-> TRUE, message |-> "The requested file could not be read"],
      [isError |-> FALSE, message |-> ""] }

\* calls of handleFiles whose file.text() is pending at the same time
MaxPending == 2

\* handleFiles up to its await, with the callbacks of App (handleUploadError
\* shows a notification): a file that is read is pending from here on
StartHandleFiles(route, files) ==
    /\ Len(reading) < MaxPending \/ handleFilesUntilAwait(files).awaited = << >>
    /\ lastCall' = Some([op |-> "handleFiles", route |-> route, files |-> files,
                         settled |-> handleFilesUntilAwait(files).awaited = << >>,
                         onUpload |-> << >>,
                         onError |-> handleFilesUntilAwait(files).onError])
    /\ isLoading' = IF handleFilesUntilAwait(files).setIsLoading = << >> THEN isLoading
                    ELSE handleFilesUntilAwait(files).setIsLoading[1]
    /\ reading' = reading \o handleFilesUntilAwait(files).awaited
    /\ UNCHANGED << colorData, tripleHueConfig, pc, analysis, earlier, classified, grouped, tables, twin >>

\* onDrop of the Dropzone, which is disabled while isLoading
OnDrop(files) ==
    /\ ~isLoading
    /\ StartHandleFiles("onDrop", files)

\* onchange of the file input of the Browse button: the first file of the
\* input, if any, goes to handleFiles, whatever isLoading is by then
InputChange(files) ==
    IF Len(files) = 0
    THEN /\ lastCall' = Some([op |-> "input.onchange", route |-> "onchange", files |-> files,
                              settled |-> TRUE, onUpload |-> << >>, onError |-> << >>])
         /\ UNCHANGED << colorData, tripleHueConfig, pc, analysis, earlier, classified, grouped, tables, twin, isLoading, reading >>
    ELSE StartHandleFiles("onchange", << files[1] >>)

\* onReject of the Dropzone
OnReject ==
    /\ ~isLoading
    /\ lastCall' = Some([op |-> "onReject", route |-> "onReject", files |-> << >>,
                         settled |-> TRUE, onUpload |-> << >>,
                         onError |-> << "File rejected" >>])
    /\ UNCHANGED << colorData, tripleHueConfig, pc, analysis, earlier, classified, grouped, tables, twin, isLoading, reading >>

\* the rest of a call of handleFiles, whose callbacks are calls: with the
\* callbacks of App, handleFileUpload stores the map and leaves the upload
\* page; the finally block ends the loading state, whatever else is pending
SettleHandleFiles(i, calls) ==
    /\ lastCall' = Some([op |-> "handleFiles", route |-> "await", files |-> << reading[i] >>,
                         settled |-> TRUE, onUpload |-> calls.onUpload,
                         onError |-> calls.onError])
    /\ IF calls.onUpload # << >>
       THEN colorData' = calls.onUpload[1] /\ pc' = "loaded"
       ELSE UNCHANGED << colorData, pc >>
    /\ isLoading' = FALSE
    /\ reading' = SubSeq(reading, 1, i - 1) \o SubSeq(reading, i + 1, Len(reading))
    /\ UNCHANGED << tripleHueConfig, analysis, earlier, classified, grouped, tables, twin >>

\* file.text() of the i-th pending call gives the text
TextArrives(i) ==
    /\ i \in 1..Len(reading)
    /\ SettleHandleFiles(i, handleFilesWithText(reading[i].text))

\* file.text() of the i-th pending call is rejected
TextFails(i, error) ==
    /\ i \in 1..Len(reading)
    /\ SettleHandleFiles(i, handleFilesCatch(error))

\* the dashboard of a loaded map
CalculateAnalysisMetrics ==
    /\ pc = "loaded"
    /\ lastCall' = Some([op |-> "calculateAnalysisMetrics",
                         result |-> calculateAnalysisMetrics(colorData)])
    /\ UNCHANGED << colorData, tripleHueConfig, pc, analysis, earlier, classified, grouped, tables, twin, isLoading, reading >>

NextUpload ==
    \/ \E files \in FileLists : OnDrop(files)
    \/ \E files \in FileLists : InputChange(files)
    \/ OnReject
    \/ \E i \in 1..MaxPending : TextArrives(i)
    \/ \E i \in 1..MaxPending, error \in ReadErrors : TextFails(i, error)
    \/ CalculateAnalysisMetrics

SpecUpload == Init /\ [][NextUpload]_vars
(***************************************************************************)
(* Properties.                                                             *)
(***************************************************************************)
HexColorsOf(data) == [i \in 1..Len(data) |-> data[i].hexValue]

\* the state an analysis leaves behind: its result is in analysis, and no
\* matcher has been called on it yet (a matcher call leaves analysis as it is)
Analyzed == pc = "analyzed" /\ IsDefined(analysis)

CalledOp(op) == IsDefined(lastCall) /\ Get(lastCall).op = op

\* positions (scheme, shade) of a scheme set, in iteration order
ShadePositions(a) ==
    { << s, i >> : s \in 1..Len(a.generatedSchemes), i \in 0..9 }

ShadeAt(a, p) == a.generatedSchemes[p[1]].shades[p[2] + 1]

Before(p, q) == p[1] < q[1] \/ (p[1] = q[1] /\ p[2] < q[2])

\* C1: groupColorsByOpenColorHue returns all 13 families as keys, the list of
\* each family is exactly the inputs that findClosestOpenColorHue maps to it,
\* in input order (an empty list when there are none), and the sizes of the
\* lists sum to the number of inputs.
C1_GroupingIsAPartition ==
    IsDefined(grouped) =>
        LET colors == Get(grouped).colors
            result == Get(grouped).result
        IN  /\ DOMAIN result = OpenColorHue(ModuleTables)
            /\ Cardinality(DOMAIN result) = 13
            /\ \A hue \in OpenColorHue(ModuleTables) :
                   result[hue] = SelectSeq(colors, LAMBDA c : findClosestOpenColorHue(c, ModuleTables) = hue)
            /\ SumSeq([i \in 1..Len(HueKeys(ModuleTables)) |-> Len(result[HueKeys(ModuleTables)[i]])]) = Len(colors)

\* C1 witness: a list that holds the same blue color twice was grouped.
C1_Witness ==
    /\ IsDefined(grouped)
    /\ Len(Get(grouped).colors) = 2
    /\ Get(grouped).colors[1] = Get(grouped).colors[2]
    /\ Len(Get(grouped).result["blue"]) = 2
    /\ Get(grouped).result["gray"] = << >>

\* C2: hueAnalyses has exactly one entry per family with members, and
\* generatedSchemes is, in order, one scheme per hueAnalyses entry with
\* usage > 0; a family whose records have no occurrence at all has no scheme.
C2_UsageGating ==
    Analyzed =>
        LET a == Get(analysis)
            groups == groupColorsByOpenColorHue(HexColorsOf(colorData), ModuleTables)
            entryHues == [i \in 1..Len(a.hueAnalyses) |-> a.hueAnalyses[i].hue]
            usedEntries == SelectSeq(a.hueAnalyses, LAMBDA e : e.usage > 0)
        IN  /\ SeqRange(entryHues) = { hue \in OpenColorHue(ModuleTables) : groups[hue] # << >> }
            /\ Cardinality(SeqRange(entryHues)) = Len(entryHues)
            /\ Len(a.generatedSchemes) = Len(usedEntries)
            /\ \A i \in 1..Len(usedEntries) :
                   /\ a.generatedSchemes[i].hue = usedEntries[i].hue
                   /\ a.generatedSchemes[i].analysis = usedEntries[i]
            /\ \A i \in 1..Len(a.hueAnalyses) :
                   (\A j \in 1..Len(colorData) :
                        findClosestOpenColorHue(colorData[j].hexValue, ModuleTables) = a.hueAnalyses[i].hue
                            => colorData[j].occurrences = 0)
                   => \A k \in 1..Len(a.generatedSchemes) :
                          a.generatedSchemes[k].hue # a.hueAnalyses[i].hue

\* C2 witness: a family with members and no occurrence next to a used family.
C2_Witness ==
    /\ Analyzed
    /\ Len(Get(analysis).hueAnalyses) = 2
    /\ Len(Get(analysis).generatedSchemes) = 1
    /\ \E i \in 1..2 : Get(analysis).hueAnalyses[i].usage = 0

\* C3: the usage of every hueAnalyses entry is the sum of the occurrence
\* counts of the input records classified into its family.
C3_UsageIsSumOfOccurrences ==
    Analyzed =>
        \A i \in 1..Len(Get(analysis).hueAnalyses) :
            LET e == Get(analysis).hueAnalyses[i]
                members == SelectSeq(colorData,
                               LAMBDA r : findClosestOpenColorHue(r.hexValue, ModuleTables) = e.hue)
            IN  e.usage = SumSeq([j \in 1..Len(members) |-> members[j].occurrences])

\* C4: every generated scheme has 10 shades and shade i decodes to lightness
\* 96, 90, 82, 70, 56, 45, 37, 29, 22, 16 at i = 0..9, strictly decreasing.
C4_ShadeLightnessCurve ==
    Analyzed =>
        \A k \in 1..Len(Get(analysis).generatedSchemes) :
            LET shades == Get(analysis).generatedSchemes[k].shades
                curve == << 96, 90, 82, 70, 56, 45, 37, 29, 22, 16 >>
            IN  /\ Len(shades) = 10
                /\ \A i \in 1..10 : toHsl(shades[i]).l = curve[i]
                /\ \A i \in 1..9 : toHsl(shades[i]).l > toHsl(shades[i + 1]).l

\* C4 witness: a chromatic scheme synthesized with three-zone interpolation.
C4_Witness ==
    /\ Analyzed
    /\ \E k \in 1..Len(Get(analysis).generatedSchemes) :
           LET s == Get(analysis).generatedSchemes[k]
           IN  /\ s.hue # "gray"
               /\ useTripleHue(s.tripleHueMode, s.analysis.highlightHue,
                               s.analysis.midtoneHue, s.analysis.shadowHue)

\* min(|h1 - h2|, 360 - |h1 - h2|)
CircularDistance(h1, h2) ==
    IF Abs(h1 - h2) < 360 - Abs(h1 - h2) THEN Abs(h1 - h2) ELSE 360 - Abs(h1 - h2)

\* C5: findClosestOpenColorHue returns gray iff the saturation is below 15,
\* and otherwise the first chromatic family of the table, in table order,
\* among those at minimum circular distance from the color's hue.
C5_ClassifierRule ==
    IsDefined(classified) =>
        LET hsl == toHsl(Get(classified).hexColor)
            hue == Get(classified).hue
            Chromatic == { i \in 1..Len(OPEN_COLOR_HUES) : OPEN_COLOR_HUES[i].key # "gray" }
            D(i) == CircularDistance(hsl.h, OPEN_COLOR_HUES[i].hue)
        IN  /\ hue = "gray" <=> hsl.s < 15
            /\ hsl.s >= 15 =>
                   \E i \in Chromatic :
                       /\ OPEN_COLOR_HUES[i].key = hue
                       /\ \A j \in Chromatic : D(i) <= D(j)
                       /\ \A j \in Chromatic : j < i => D(j) > D(i)

\* C5 witness: a color half way between teal (162) and green (120), and a
\* color with low saturation and a hue of its own, were classified.
C5_Witness ==
    /\ IsDefined(classified)
    /\ \/ /\ toHsl(Get(classified).hexColor).h = 141
          /\ toHsl(Get(classified).hexColor).s >= 15
          /\ Get(classified).hue = "teal"
       \/ /\ toHsl(Get(classified).hexColor).h = 210
          /\ toHsl(Get(classified).hexColor).s = 14
          /\ Get(classified).hue = "gray"

\* the matches a query has among the shades of a scheme set at distance d
AtDistance(a, inputColor, d) ==
    { p \in ShadePositions(a) : calculateColorDistance(inputColor, ShadeAt(a, p)) = d }

\* the match record of the shade at position p
IsShade(a, m, p) ==
    /\ m.hue = a.generatedSchemes[p[1]].hue
    /\ m.shade = p[2]
    /\ m.color = ShadeAt(a, p)

\* C6: with at least one scheme, findClosestSchemeColor returns a shade at
\* minimum RGB distance from the query over all shades of all schemes, and
\* the first such shade in scheme-then-shade order.
C6_ClosestIsFirstMinimum ==
    (CalledOp("findClosestSchemeColor") /\ Get(analysis).generatedSchemes # << >>) =>
        LET a == Get(analysis)
            q == Get(lastCall).inputColor
            m == Get(lastCall).result
        IN  \E p \in ShadePositions(a) :
                /\ IsShade(a, m, p)
                /\ m.distance = calculateColorDistance(q, ShadeAt(a, p))
                /\ \A o \in ShadePositions(a) :
                       /\ calculateColorDistance(q, ShadeAt(a, o)) >= m.distance
                       /\ Before(o, p) => calculateColorDistance(q, ShadeAt(a, o)) > m.distance

\* C6 witness: a query from outside the scheme set that has two shades at
\* the same minimum distance.
C6_Witness ==
    /\ CalledOp("findClosestSchemeColor")
    /\ Get(lastCall).result.distance > 0
    /\ Get(lastCall).result.distance < Infinity
    /\ Cardinality(AtDistance(Get(analysis), Get(lastCall).inputColor,
                              Get(lastCall).result.distance)) >= 2

\* C7 as claimed: queried with the color of shade i of family f,
\* findClosestSchemeColor returns hue f, shade i, that color and distance 0.
C7_SelfMatchIsThatShade ==
    CalledOp("findClosestSchemeColor") =>
        \A p \in ShadePositions(Get(analysis)) :
            ShadeAt(Get(analysis), p) = Get(lastCall).inputColor =>
                /\ IsShade(Get(analysis), Get(lastCall).result, p)
                /\ Get(lastCall).result.distance = 0

\* C7 as amended: queried with the color of one of the shades,
\* findClosestSchemeColor returns distance 0 and that color, as the first
\* shade in scheme-then-shade order that has the color; it is the queried
\* shade itself when no earlier shade has the same color.
C7_SelfMatchIsFirstOfThatColor ==
    CalledOp("findClosestSchemeColor") =>
        LET a == Get(analysis)
            q == Get(lastCall).inputColor
            m == Get(lastCall).result
            same == { p \in ShadePositions(a) : ShadeAt(a, p) = q }
        IN  same # {} =>
                /\ m.distance = 0
                /\ m.color = q
                /\ \E p \in same :
                       /\ IsShade(a, m, p)
                       /\ \A o \in same : ~Before(o, p)

\* C7 witness: the query is the color of gray-0, which blue-0 has as well,
\* and the answer is blue-0.
C7_Witness ==
    /\ CalledOp("findClosestSchemeColor")
    /\ \E p \in ShadePositions(Get(analysis)) :
           /\ ShadeAt(Get(analysis), p) = Get(lastCall).inputColor
           /\ Get(analysis).generatedSchemes[p[1]].hue = "gray"
           /\ Get(lastCall).result.hue = "blue"
           /\ Get(lastCall).result.distance = 0

\* C8: with no generated scheme, findClosestSchemeColor returns the default
\* match: color #000000, hue gray, shade 9, colorName gray-9.
C8_DefaultMatch ==
    (CalledOp("findClosestSchemeColor") /\ Get(analysis).generatedSchemes = << >>) =>
        /\ Get(lastCall).result.color = 0
        /\ Get(lastCall).result.hue = "gray"
        /\ Get(lastCall).result.shade = 9
        /\ Get(lastCall).result.colorName = "gray-9"

\* C8 witness: a map with members and no occurrence was analyzed and queried.
C8_Witness ==
    /\ CalledOp("findClosestSchemeColor")
    /\ Get(analysis).generatedSchemes = << >>
    /\ Get(analysis).hueAnalyses # << >>
    /\ Get(lastCall).result.shade = 9

\* the ColorMatch values of the last matcher call
ReturnedMatches ==
    IF ~IsDefined(lastCall) THEN {}
    ELSE IF Get(lastCall).op = "findClosestSchemeColor" THEN { Get(lastCall).result }
    ELSE IF Get(lastCall).op = "findClosestSchemeColors" THEN SeqRange(Get(lastCall).result)
    ELSE SeqRange(Get(lastCall).result)

\* a ColorMatch is well-formed: colorName is hue-shade, color is the shade at
\* index shade of the generated scheme of family hue, and distance is the RGB
\* distance from the query to color
WellFormed(a, q, m) ==
    /\ m.colorName = m.hue \o "-" \o ToString(m.shade)
    /\ \E s \in 1..Len(a.generatedSchemes) :
           /\ a.generatedSchemes[s].hue = m.hue
           /\ m.shade \in 0..9
           /\ a.generatedSchemes[s].shades[m.shade + 1] = m.color
    /\ LET c1 == toRgb(q)
           c2 == toRgb(m.color)
       IN  m.distance = (c1.r - c2.r) * (c1.r - c2.r) + (c1.g - c2.g) * (c1.g - c2.g)
                            + (c1.b - c2.b) * (c1.b - c2.b)

\* C9 as claimed: every ColorMatch returned by the three matcher functions
\* is well-formed, for every scheme set, an empty one included.
C9_EveryMatchWellFormed ==
    \A m \in ReturnedMatches : WellFormed(Get(analysis), Get(lastCall).inputColor, m)

\* C9 as amended: every ColorMatch returned for a scheme set with at least
\* one scheme is well-formed; for an empty scheme set findClosestSchemeColor
\* returns the default match #000000 gray-9 with distance Infinity,
\* findClosestSchemeColors returns no match and findClosestColorInHue null.
C9_MatchWellFormedUnlessEmpty ==
    IsDefined(lastCall) =>
        IF Get(analysis).generatedSchemes # << >>
        THEN \A m \in ReturnedMatches :
                 WellFormed(Get(analysis), Get(lastCall).inputColor, m)
        ELSE /\ Get(lastCall).op = "findClosestSchemeColor" =>
                 /\ Get(lastCall).result.color = 0
                 /\ Get(lastCall).result.colorName = "gray-9"
                 /\ Get(lastCall).result.distance = Infinity
             /\ Get(lastCall).op # "findClosestSchemeColor" =>
                 Get(lastCall).result = << >>

\* C9 witness: findClosestSchemeColors returned five matches of two schemes.
C9_Witness ==
    /\ CalledOp("findClosestSchemeColors")
    /\ Len(Get(lastCall).result) = 5
    /\ \E i, j \in 1..5 : Get(lastCall).result[i].hue # Get(lastCall).result[j].hue

C11_EngineCallsLeaveInputsAlone ==
    [][pc' # "upload" =>
          /\ colorData' = colorData
          /\ tables'.OPEN_COLOR_HUES = OPEN_COLOR_HUES
          /\ tables'.OPEN_COLOR_PALETTE = OPEN_COLOR_PALETTE]_vars

\* C11 witness: after an analysis of a map with a blue color, the complete
\* palette was generated and holds generated blue shades, not the reference
\* ones.
C11_Witness ==
    /\ CalledOp("generateCompleteOpenColorPalette")
    /\ IsDefined(analysis)
    /\ Len(colorData) = 2
    /\ Get(lastCall).result["blue"] # PaletteOf("blue", ModuleTables)
    /\ Get(lastCall).result["green"] = PaletteOf("green", ModuleTables)

\* hexValue and number of occurrences of the records of a map, in order
ColorsAndCounts(data) ==
    [i \in 1..Len(data) |-> << data[i].hexValue, data[i].occurrences >>]

\* C12: the result of analyzeColorsForSchemeGeneration depends only on the
\* hexValue and the number of occurrences of each record: two maps with the
\* same records in the same order, differing only in keys, hue field,
\* category, usage pattern, aliases or representations, analyzed under the
\* same configuration, give identical results.
C12_OnlyHexAndOccurrencesMatter ==
    (/\ Analyzed
     /\ CalledOp("analyzeColorsForSchemeGeneration")
     /\ ColorsAndCounts(colorData) = ColorsAndCounts(twin))
        => Get(analysis) = Get(lastCall).result

\* C12 witness: two maps of two records that differ in keys and metadata were
\* analyzed in multi-zone mode, and schemes were generated.
C12_Witness ==
    /\ Analyzed
    /\ CalledOp("analyzeColorsForSchemeGeneration")
    /\ Len(colorData) = 2
    /\ \A i \in 1..2 : /\ colorData[i].key # twin[i].key
                       /\ colorData[i].hue # twin[i].hue
                       /\ colorData[i].aliases # twin[i].aliases
    /\ ConfigEnabled(tripleHueConfig)
    /\ Len(Get(analysis).generatedSchemes) > 0

\* a hue brought into one turn
NormalHue(h) == DMod(DAdd(DMod(h, D360), D360), D360)

\* the length of the shorter arc between two hues of one turn
ArcLength(a, b) == MathMin(DAbs(DSub(a, b)), DSub(D360, DAbs(DSub(a, b))))

\* the rounding error allowed to a hue that is computed in doubles: one
\* billionth of a degree
HueTolerance == DDiv(D1, DFromInt(1000000000))

\* two numbers that differ by rounding error at most
Near(a, b) == DLessEq(DAbs(DSub(a, b)), HueTolerance)

\* two hues of one turn that differ by rounding error at most
NearOnCircle(a, b) == DLessEq(ArcLength(a, b), HueTolerance)

\* a number of [0, 360)
InOneTurn(h) == DLessEq(DZero, h) /\ DLess(h, D360)

\* the result r of interpolateHue for the normalized hues h1 and h2 lies on
\* the shorter arc between them, at factor of its length from h1
OnShorterArc(r, h1, h2, factor) ==
    /\ Near(ArcLength(r, h1), DMul(ArcLength(h1, h2), factor))
    /\ Near(ArcLength(r, h2), DMul(ArcLength(h1, h2), DSub(D1, factor)))

\* the factor of a call is in [0, 1]
FactorInUnit(c) == DLessEq(DZero, c.factor) /\ DLessEq(c.factor, D1)

\* the two hues of a call are the same hue h of [0, 360)
SameHueOfTurn(c) == c.hue1 = c.hue2 /\ InOneTurn(c.hue1)

KeptByTurn(h) == DSub(DAdd(h, D360), D360) = h

\* the rounding error of h + 360 for a hue h of [0, 360) is below 1e-13
\* degree: half the spacing of the doubles below 720 is 2^-44
TurnTolerance == DDiv(HueTolerance, DFromInt(10000))

C15_CircularMeanInRange ==
    CalledOp("calculateCircularMean") =>
        /\ ~isNaN(Get(lastCall).result)
        /\ InOneTurn(Get(lastCall).result)
        /\ Get(lastCall).hues = << >> => Get(lastCall).result = DZero
        /\ Get(lastCall).hues = << 350, 10 >> =>
               /\ DMod(Get(lastCall).result, D360) = DZero
               /\ Get(lastCall).result # D180

\* the entries of hueAnalyses
EntriesOf(a) == { a.hueAnalyses[i] : i \in 1..Len(a.hueAnalyses) }

ZoneHuesOf(e) == << e.highlightHue, e.midtoneHue, e.shadowHue >>

ZoneListsOf(e) == << e.highlightColors, e.midtoneColors, e.shadowColors >>

\* C13: in multi-zone mode every hueAnalyses entry of a chromatic family
\* with a member of saturation >= 15 has highlightHue, midtoneHue and
\* shadowHue defined and in [0, 360), whichever zones are empty; the gray
\* entry, and every entry when the mode is off or no config is given, has
\* the three zone hues and the three zone lists undefined.
C13_ZoneHuesPopulatedInRange ==
    Analyzed =>
        \A e \in EntriesOf(Get(analysis)) :
            IF /\ ConfigEnabled(tripleHueConfig)
               /\ e.hue # "gray"
               /\ \E i \in 1..Len(e.colors) : toHsl(e.colors[i]).s >= GrayThreshold
            THEN \A k \in 1..3 :
                     /\ IsDefined(ZoneHuesOf(e)[k])
                     /\ InOneTurn(Get(ZoneHuesOf(e)[k]))
            ELSE (e.hue = "gray" \/ ~ConfigEnabled(tripleHueConfig)) =>
                     \A k \in 1..3 : /\ ~IsDefined(ZoneHuesOf(e)[k])
                                     /\ ~IsDefined(ZoneListsOf(e)[k])

\* { enabled: true, highlightThreshold: 50, shadowThreshold: 50 }
BothThresholds50 ==
    Some([enabled |-> TRUE, highlightThreshold |-> Some(50), shadowThreshold |-> Some(50)])

Lightnesses(colors) == [i \in 1..Len(colors) |-> toHsl(colors[i]).l]

\* C16 as claimed: in multi-zone mode with both thresholds at 50, the group
\* of five blues of lightness 80, 85, 55, 30, 25 has the highlight zone
\* (80, 85), an empty midtone zone with a back-filled hue, and the shadow
\* zone (55, 30, 25).
C16_ShadowZoneHolds55 ==
    (Analyzed /\ HexColorsOf(colorData) = FiveBlues /\ tripleHueConfig = BothThresholds50) =>
        \A e \in EntriesOf(Get(analysis)) :
            /\ e.hue = "blue"
            /\ Lightnesses(Get(e.highlightColors)) = << 80, 85 >>
            /\ Get(e.midtoneColors) = << >>
            /\ IsDefined(e.midtoneHue)
            /\ Lightnesses(Get(e.shadowColors)) = << 55, 30, 25 >>

\* C16: in multi-zone mode with both thresholds at 50, every chromatic group
\* is cut in two: the highlight zone holds the members of lightness >= 50,
\* the shadow zone those below 50, the midtone zone is empty and its hue is
\* back-filled; for the five blues of lightness 80, 85, 55, 30, 25 the
\* highlight zone is (80, 85, 55) and the shadow zone (30, 25).
C16_ZonesAtThreshold50 ==
    (Analyzed /\ tripleHueConfig = BothThresholds50) =>
        \A e \in EntriesOf(Get(analysis)) :
            e.hue # "gray" =>
                /\ Get(e.highlightColors) = SelectSeq(e.colors, LAMBDA c : toHsl(c).l >= 50)
                /\ Get(e.midtoneColors) = << >>
                /\ Get(e.shadowColors) = SelectSeq(e.colors, LAMBDA c : toHsl(c).l < 50)
                /\ IsDefined(e.highlightHue) /\ IsDefined(e.midtoneHue) /\ IsDefined(e.shadowHue)
                /\ HexColorsOf(colorData) = FiveBlues =>
                       /\ e.hue = "blue"
                       /\ Lightnesses(Get(e.highlightColors)) = << 80, 85, 55 >>
                       /\ Lightnesses(Get(e.shadowColors)) = << 30, 25 >>

\* C16 witness: the five blues were analyzed with both thresholds at 50; the
\* blue group has members in the highlight and in the shadow zone, none in
\* the midtone zone, and three different zone hues.
C16_Witness ==
    /\ Analyzed
    /\ HexColorsOf(colorData) = FiveBlues
    /\ tripleHueConfig = BothThresholds50
    /\ \E e \in EntriesOf(Get(analysis)) :
           /\ e.hue = "blue"
           /\ Len(Get(e.highlightColors)) = 3
           /\ Get(e.midtoneColors) = << >>
           /\ Len(Get(e.shadowColors)) = 2
           /\ Cardinality({ e.highlightHue, e.midtoneHue, e.shadowHue }) = 3

\* C17: for the empty map analyzeColorsForSchemeGeneration returns
\* totalColors 0 and empty hueAnalyses, generatedSchemes and openColorMapping
\* (and the config it was given): nothing in the result comes from the
\* division by zero of the mean chroma over zero groups.
C17_EmptyMapEmptyResult ==
    (Analyzed /\ colorData = << >>) =>
        /\ Get(analysis).totalColors = 0
        /\ Get(analysis).hueAnalyses = << >>
        /\ Get(analysis).generatedSchemes = << >>
        /\ DOMAIN Get(analysis).openColorMapping = {}
        /\ Get(analysis).tripleHueConfig = tripleHueConfig
        /\ DOMAIN Get(analysis) = { "totalColors", "hueAnalyses", "generatedSchemes",
                                    "openColorMapping", "tripleHueConfig" }
        /\ isNaN(globalChromaOf(Get(analysis).hueAnalyses))

\* C17 witness: the empty map was analyzed in multi-zone mode.
C17_Witness ==
    /\ Analyzed
    /\ colorData = << >>
    /\ ConfigEnabled(tripleHueConfig)
    /\ Get(analysis).totalColors = 0

\* the records of a map that colord can parse
Parseable(data) == SelectSeq(data, LAMBDA record : record.hexValue # Unparseable)

\* family and averages of every entry of hueAnalyses
AveragesOf(a) ==
    [i \in 1..Len(a.hueAnalyses) |->
        << a.hueAnalyses[i].hue, a.hueAnalyses[i].avgHue, a.hueAnalyses[i].avgChroma,
           a.hueAnalyses[i].avgLightness >>]

\* C18: a record whose hexValue cannot be parsed is treated as absent: the
\* analysis completes, and the hue, chroma and lightness averages of every
\* group are those of the analysis of the map without that record.
C18_UnparseableIsAbsent ==
    Analyzed =>
        AveragesOf(Get(analysis)) =
            AveragesOf(analyzeColorsForSchemeGeneration(Parseable(colorData), tripleHueConfig, ModuleTables))

\* the chroma handed to generateOpenColorShades for an entry
SchemeChroma(a, e) == MathMax(e.avgChroma, globalChromaOf(a.hueAnalyses))

\* Math.min(100, Math.max(0, getChromaForLightness(lightness)))
ShadeChroma(a, e, lightness) ==
    MathMin(D100, MathMax(DZero, getChromaForLightness(SchemeChroma(a, e), lightness)))

\* the ten shades of an entry with the hue of the three-zone interpolation
ThreeZoneShades(a, e) ==
    [i \in 1..Len(lightnessSteps) |->
        fromHsl(tripleHueAt(lightnessSteps[i], Get(e.highlightHue), Get(e.midtoneHue),
                            Get(e.shadowHue)),
                ShadeChroma(a, e, lightnessSteps[i]), lightnessSteps[i])]

\* the ten shades of an entry with the single hue avgHue
SingleHueShades(a, e) ==
    [i \in 1..Len(lightnessSteps) |->
        fromHsl(NormalHue(e.avgHue), ShadeChroma(a, e, lightnessSteps[i]), lightnessSteps[i])]

\* two hues differ by more than 5 degrees
DifferByMoreThan5(a, b) == DGreater(DAbs(DSub(a, b)), DFromInt(5))

\* some pair of the three zone hues differs by more than 5 degrees
SomePairDiffers(e) ==
    \/ DifferByMoreThan5(Get(e.highlightHue), Get(e.midtoneHue))
    \/ DifferByMoreThan5(Get(e.midtoneHue), Get(e.shadowHue))
    \/ DifferByMoreThan5(Get(e.highlightHue), Get(e.shadowHue))

\* the generated schemes
SchemesOf(a) == { a.generatedSchemes[i] : i \in 1..Len(a.generatedSchemes) }

\* C19: the shades of a chromatic scheme are those of the three-zone
\* interpolation exactly when multi-zone mode is enabled, the three zone
\* hues are defined, and at least one of the pairs highlight-midtone,
\* midtone-shadow, highlight-shadow differs by more than 5 degrees;
\* otherwise each of the 10 shades has the single hue avgHue, normalized.
C19_ThreeZoneWhenAnyPairDiffers ==
    Analyzed =>
        \A scheme \in SchemesOf(Get(analysis)) :
            scheme.hue # "gray" =>
                IF /\ ConfigEnabled(tripleHueConfig)
                   /\ IsDefined(scheme.analysis.highlightHue)
                   /\ IsDefined(scheme.analysis.midtoneHue)
                   /\ IsDefined(scheme.analysis.shadowHue)
                   /\ SomePairDiffers(scheme.analysis)
                THEN scheme.shades = ThreeZoneShades(Get(analysis), scheme.analysis)
                ELSE scheme.shades = SingleHueShades(Get(analysis), scheme.analysis)

\* three-zone interpolation was used for the shades of a scheme
UsedThreeZones(scheme) ==
    /\ scheme.hue # "gray"
    /\ useTripleHue(scheme.tripleHueMode, scheme.analysis.highlightHue,
                    scheme.analysis.midtoneHue, scheme.analysis.shadowHue)

\* C20: the tripleHueMode flag of every generated scheme, gray included, is
\* true exactly when three-zone hue interpolation was used to make the
\* shades of that scheme.
C20_FlagTellsThreeZoneUse ==
    Analyzed =>
        \A scheme \in SchemesOf(Get(analysis)) :
            (scheme.tripleHueMode = Some(TRUE)) <=> UsedThreeZones(scheme)

\* the zone lists of an entry in the priority order of the back-fill
ZonesInOrder(e) == << Get(e.highlightColors), Get(e.midtoneColors), Get(e.shadowColors) >>

\* the populated zones of an entry, in the same order
PopulatedZones(e) == SelectSeq(ZonesInOrder(e), LAMBDA zone : Len(zone) > 0)

\* the hue of zone k of an entry before the midtone is blended: the circular
\* mean of the zone's own members, for an empty zone that of the first
\* populated zone, and the overall mean hue when no zone is populated
HueBeforeBlend(e, k) ==
    IF Len(ZonesInOrder(e)[k]) > 0 THEN calculateCircularMean(HueList(ZonesInOrder(e)[k]))
    ELSE IF PopulatedZones(e) = << >> THEN e.avgHue
    ELSE calculateCircularMean(HueList(PopulatedZones(e)[1]))

\* C21: in multi-zone mode the hue of an empty zone is, before the midtone
\* is blended, that of the first populated zone in the order highlight,
\* midtone, shadow; a populated zone keeps the circular mean of its own
\* members; with no populated zone the three hues are the overall mean hue.
\* The highlight and shadow hues are returned as they are, the midtone hue
\* after its blend with the middle of shadow and highlight.
C21_EmptyZoneTakesFirstPopulated ==
    (Analyzed /\ ConfigEnabled(tripleHueConfig)) =>
        \A e \in EntriesOf(Get(analysis)) :
            e.hue # "gray" =>
                /\ e.highlightHue = Some(HueBeforeBlend(e, 1))
                /\ e.shadowHue = Some(HueBeforeBlend(e, 3))
                /\ e.midtoneHue =
                       Some(interpolateHue(HueBeforeBlend(e, 2),
                                           interpolateHue(HueBeforeBlend(e, 3),
                                                          HueBeforeBlend(e, 1), DHalf),
                                           DHalf))

\* C21 witness: a group analyzed in multi-zone mode has members in the
\* highlight and in the shadow zone, of different hues, and none in the
\* midtone zone.
C21_Witness ==
    /\ Analyzed
    /\ ConfigEnabled(tripleHueConfig)
    /\ \E e \in EntriesOf(Get(analysis)) :
           /\ e.hue # "gray"
           /\ Get(e.midtoneColors) = << >>
           /\ Len(Get(e.highlightColors)) > 0
           /\ Len(Get(e.shadowColors)) > 0
           /\ e.highlightHue # e.shadowHue

\* tripleHueConfig.highlightThreshold ?? 66 and tripleHueConfig.shadowThreshold ?? 33
HighlightThresholdOf(config) == OrElse(Get(config).highlightThreshold, 66)
ShadowThresholdOf(config) == OrElse(Get(config).shadowThreshold, 33)

\* the members of a group with saturation >= 15 whose lightness is in [low, high)
MembersBetween(e, low, high) ==
    SelectSeq(e.colors, LAMBDA c : /\ toHsl(c).s >= GrayThreshold
                                   /\ low <= toHsl(c).l
                                   /\ toHsl(c).l < high)

\* C22: in multi-zone mode with shadowThreshold <= highlightThreshold (33 and
\* 66 when the config omits them) the three zone lists of a chromatic group
\* partition its members of saturation >= 15: highlightColors holds those
\* with L >= highlightThreshold, midtoneColors those with shadowThreshold <=
\* L < highlightThreshold, shadowColors those with L < shadowThreshold, each
\* member as often as it is in the group; members of saturation below 15
\* are in no list.
C22_ZonesPartitionByLightness ==
    (/\ Analyzed
     /\ ConfigEnabled(tripleHueConfig)
     /\ ShadowThresholdOf(tripleHueConfig) <= HighlightThresholdOf(tripleHueConfig)) =>
        \A e \in EntriesOf(Get(analysis)) :
            e.hue # "gray" =>
                /\ Get(e.highlightColors) =
                       MembersBetween(e, HighlightThresholdOf(tripleHueConfig), 101)
                /\ Get(e.midtoneColors) =
                       MembersBetween(e, ShadowThresholdOf(tripleHueConfig),
                                      HighlightThresholdOf(tripleHueConfig))
                /\ Get(e.shadowColors) =
                       MembersBetween(e, 0, ShadowThresholdOf(tripleHueConfig))

\* C22 witness: a group analyzed in multi-zone mode without thresholds in
\* the config has a member of lightness 66 in the highlight zone and a member
\* of lightness 33 in the midtone zone.
C22_Witness ==
    /\ Analyzed
    /\ ConfigEnabled(tripleHueConfig)
    /\ ~IsDefined(Get(tripleHueConfig).highlightThreshold)
    /\ ~IsDefined(Get(tripleHueConfig).shadowThreshold)
    /\ \E e \in EntriesOf(Get(analysis)) :
           /\ e.hue # "gray"
           /\ Lightnesses(Get(e.highlightColors)) = << 66 >>
           /\ Lightnesses(Get(e.midtoneColors)) = << 33 >>

\* clamp(num / den, 0, 1)
ClampedFactor(num, den) == MathMax(DZero, MathMin(D1, DDiv(DFromInt(num), DFromInt(den))))

\* f = (L - 40) / 35
BandFactor(L) == DDiv(DFromInt(L - 40), DFromInt(35))

\* the hue of the shade at lightness L under three-zone interpolation, as a
\* rule of the three bands of L
ZoneRuleHue(L, e) ==
    IF L >= 75
    THEN interpolateHue(Get(e.midtoneHue), Get(e.highlightHue), ClampedFactor(L - 75, 21))
    ELSE IF L < 40
    THEN interpolateHue(Get(e.shadowHue), Get(e.midtoneHue), ClampedFactor(L - 16, 24))
    ELSE IF DLess(BandFactor(L), DHalf)
    THEN interpolateHue(Get(e.shadowHue), Get(e.midtoneHue), DMul(D2, BandFactor(L)))
    ELSE interpolateHue(Get(e.midtoneHue), Get(e.highlightHue),
                        DMul(D2, DSub(BandFactor(L), DHalf)))

\* the color of shade i of a scheme when its hue is h
ShadeOfHue(a, scheme, i, h) ==
    fromHsl(h, ShadeChroma(a, scheme.analysis, lightnessSteps[i]), lightnessSteps[i])

\* C23: when three-zone interpolation applies, the shade at lightness L has
\* the hue interpolate(midtone, highlight, clamp((L-75)/21, 0, 1)) for
\* L >= 75; for 40 <= L < 75 with f = (L-40)/35 the hue
\* interpolate(shadow, midtone, 2f) when f < 0.5 and
\* interpolate(midtone, highlight, 2(f-0.5)) otherwise; for L < 40 the hue
\* interpolate(shadow, midtone, clamp((L-16)/24, 0, 1)).  So the lightest
\* shade (L = 96) has the highlight hue and the darkest (L = 16) the shadow
\* hue, as hues of the circle.
C23_ShadeHueByLightnessBand ==
    Analyzed =>
        \A scheme \in SchemesOf(Get(analysis)) :
            UsedThreeZones(scheme) =>
                /\ \A i \in 1..Len(lightnessSteps) :
                       /\ i <= Len(scheme.shades)
                       /\ scheme.shades[i] =
                              ShadeOfHue(Get(analysis), scheme, i,
                                         ZoneRuleHue(lightnessSteps[i], scheme.analysis))
                /\ Len(scheme.shades) = 10
                /\ scheme.shades[1] =
                       ShadeOfHue(Get(analysis), scheme, 1,
                                  NormalHue(Get(scheme.analysis.highlightHue)))
                /\ scheme.shades[10] =
                       ShadeOfHue(Get(analysis), scheme, 10,
                                  NormalHue(Get(scheme.analysis.shadowHue)))

\* C23 witness: a scheme was made with three-zone interpolation from three
\* different zone hues, and its lightest shade is not the one of the single
\* hue avgHue.
C23_Witness ==
    /\ Analyzed
    /\ \E scheme \in SchemesOf(Get(analysis)) :
           /\ UsedThreeZones(scheme)
           /\ Cardinality({ scheme.analysis.highlightHue, scheme.analysis.midtoneHue,
                            scheme.analysis.shadowHue }) = 3
           /\ scheme.shades[1] #
                  ShadeOfHue(Get(analysis), scheme, 1, NormalHue(scheme.analysis.avgHue))

\* the ten gray shades: colord({ h: 210, s: 8, l }) for the lightness curve
GrayShades ==
    [i \in 1..Len(lightnessSteps) |-> fromHsl(DFromInt(210), DFromInt(8), lightnessSteps[i])]

\* C24: the shades generated for the gray family are a constant, hue 210 and
\* saturation 8 at the lightness of the curve: two calls of
\* generateOpenColorShades for gray return the same list whatever their
\* avgHue, chroma, multi-zone flag and zone hues.
C24_GrayShadesAreConstant ==
    (/\ CalledOp("generateOpenColorShades")
     /\ Get(lastCall).call.hueCategory = "gray") =>
        /\ Get(lastCall).result = GrayShades
        /\ (IsDefined(earlier) /\ Get(earlier).call.hueCategory = "gray") =>
               Get(earlier).result = Get(lastCall).result

\* C24 witness: two calls for gray that differ in every other argument.
C24_Witness ==
    /\ CalledOp("generateOpenColorShades")
    /\ IsDefined(earlier)
    /\ Get(lastCall).call.hueCategory = "gray"
    /\ Get(earlier).call.hueCategory = "gray"
    /\ Get(lastCall).call.baseHue # Get(earlier).call.baseHue
    /\ Get(lastCall).call.baseChroma # Get(earlier).call.baseChroma
    /\ Get(lastCall).call.tripleHueMode # Get(earlier).call.tripleHueMode
    /\ Get(lastCall).call.zoneHues # Get(earlier).call.zoneHues
    /\ Len(Get(lastCall).result) = 10

\* the families in display order: the twelve chromatic ones, then gray
FamiliesInOrder ==
    << "red", "pink", "grape", "violet", "indigo", "blue", "cyan", "teal", "green", "lime",
       "yellow", "orange", "gray" >>

\* the place of a family in the display order
RankOf(hue) == CHOOSE i \in 1..Len(FamiliesInOrder) : FamiliesInOrder[i] = hue

\* the families of a list of entries or schemes are known and in strictly
\* increasing display order
InDisplayOrder(list) ==
    /\ \A i \in 1..Len(list) : list[i].hue \in SeqRange(FamiliesInOrder)
    /\ \A i \in 1..Len(list), j \in 1..Len(list) :
           i < j => RankOf(list[i].hue) < RankOf(list[j].hue)

\* C25: hueAnalyses is in strictly increasing spectral index (red, pink,
\* grape, violet, indigo, blue, cyan, teal, green, lime, yellow, orange,
\* gray last), so it has at most one entry per family; generatedSchemes has
\* the families of the entries with usage, in the same order; and
\* getSpectralIndex gives a known family its place in that order and an
\* unknown one 999, behind every known family.
C25_FamiliesInSpectralOrder ==
    Analyzed =>
        /\ InDisplayOrder(Get(analysis).hueAnalyses)
        /\ InDisplayOrder(Get(analysis).generatedSchemes)
        /\ \A scheme \in SchemesOf(Get(analysis)) :
               \E e \in EntriesOf(Get(analysis)) : e.hue = scheme.hue
        /\ CalledOp("getSpectralIndex") =>
               IF Get(lastCall).hue \in SeqRange(FamiliesInOrder)
               THEN Get(lastCall).result = RankOf(Get(lastCall).hue) - 1
               ELSE /\ Get(lastCall).result = 999
                    /\ Get(lastCall).result > Len(FamiliesInOrder) - 1

\* C25 witness: the map with a color of every family was analyzed: thirteen
\* entries with red first and gray last, eleven schemes, and the index of a
\* family that is in no table was asked for.
C25_Witness ==
    /\ Analyzed
    /\ colorData = AllFamilies
    /\ Len(Get(analysis).hueAnalyses) = 13
    /\ Get(analysis).hueAnalyses[1].hue = "red"
    /\ Get(analysis).hueAnalyses[13].hue = "gray"
    /\ Len(Get(analysis).generatedSchemes) = 11
    /\ CalledOp("getSpectralIndex")
    /\ Get(lastCall).hue = "magenta"

\* C26: for the empty color map, which the upload validation accepts,
\* calculateAnalysisMetrics returns a number for every field: the counts are
\* 0 and coveragePercentage is a defined number, not the result of a
\* division by the zero color count.
C26_EmptyMapMetricsDefined ==
    (CalledOp("calculateAnalysisMetrics") /\ colorData = << >>) =>
        /\ Get(lastCall).result # TypeError
        /\ Get(lastCall).result.totalColors = 0
        /\ Get(lastCall).result.totalOccurrences = 0
        /\ Get(lastCall).result.designTokenColors = 0
        /\ Get(lastCall).result.inlineColors = 0
        /\ Get(lastCall).result.orphanedColors = 0
        /\ Get(lastCall).result.recommendedTokens = 0
        /\ ~isNaN(Get(lastCall).result.coveragePercentage)

\* an entry is an object record with hexValue and occurrences
HasSchema(entry) ==
    entry.isObject /\ IsDefined(entry.hexValue) /\ IsDefined(entry.occurrences)

\* C27: every map that handleFiles hands to onUpload has, in every entry, an
\* object record with hexValue and occurrences; a map with an entry lacking
\* one of them is reported through onError; and for a processed file exactly
\* one of onUpload and onError is called, once, by the time the call of
\* handleFiles has come to its end.
C27_UploadedMapsHaveSchema ==
    (CalledOp("handleFiles") /\ Get(lastCall).files # << >> /\ Get(lastCall).settled) =>
        /\ \A i \in 1..Len(Get(lastCall).onUpload) :
               \A k \in 1..Len(Get(lastCall).onUpload[i]) :
                   HasSchema(Get(lastCall).onUpload[i][k])
        /\ (/\ Get(lastCall).files[1].name = "json"
            /\ Get(lastCall).files[1].text.parses
            /\ \E k \in 1..Len(Get(lastCall).files[1].text.json.entries) :
                   ~HasSchema(Get(lastCall).files[1].text.json.entries[k])) =>
               (Len(Get(lastCall).onError) = 1 /\ Get(lastCall).onUpload = << >>)
        /\ Len(Get(lastCall).onUpload) + Len(Get(lastCall).onError) = 1

\* a difference of hues brought into (-180, 180]
FoldedArc(d) == IF DGreater(d, D180) THEN DSub(d, D360) ELSE d

\* the difference from hue a to hue b along the shorter arc, in (-180, 180]
SignedArc(a, b) == FoldedArc(NormalHue(DSub(b, a)))

\* two differences of hues of the same sense whose lengths sum to less than
\* 180 degrees
OneSenseBelowHalfTurn(d1, d2) ==
    /\ \/ DGreaterEq(d1, DZero) /\ DGreaterEq(d2, DZero)
       \/ DLessEq(d1, DZero) /\ DLessEq(d2, DZero)
    /\ DLess(DAdd(DAbs(d1), DAbs(d2)), D180)

\* shadow, midtone and highlight hue of an entry lie in this order along one
\* arc shorter than 180 degrees
ZonesAlongOneArc(e) ==
    OneSenseBelowHalfTurn(SignedArc(Get(e.shadowHue), Get(e.midtoneHue)),
                          SignedArc(Get(e.midtoneHue), Get(e.highlightHue)))

\* how far the hue of shade i of a scheme is from the highlight hue
FromHighlight(scheme, i) ==
    ArcLength(NormalHue(Get(scheme.analysis.highlightHue)),
              ZoneRuleHue(lightnessSteps[i], scheme.analysis))

\* the distances of the ten shade hues from the highlight hue
DistancesFromHighlight(scheme) ==
    << FromHighlight(scheme, 1), FromHighlight(scheme, 2), FromHighlight(scheme, 3),
       FromHighlight(scheme, 4), FromHighlight(scheme, 5), FromHighlight(scheme, 6),
       FromHighlight(scheme, 7), FromHighlight(scheme, 8), FromHighlight(scheme, 9),
       FromHighlight(scheme, 10) >>

\* a list of numbers that never falls by more than rounding error
NeverFalls(list) ==
    \A i \in 1..Len(list), j \in 1..Len(list) :
        i < j => DLessEq(list[i], DAdd(list[j], HueTolerance))

\* C28: when three-zone interpolation applies and the shadow, midtone and
\* highlight hues lie in that order along one arc shorter than 180 degrees,
\* the hues of the ten shades move along that arc from the highlight hue at
\* shade 0 to the shadow hue at shade 9 without turning back: no darker shade
\* has a hue nearer the highlight end than a lighter shade has (hues are
\* compared up to rounding error).
C28_ShadeHuesProgressAlongArc ==
    Analyzed =>
        \A scheme \in SchemesOf(Get(analysis)) :
            (UsedThreeZones(scheme) /\ ZonesAlongOneArc(scheme.analysis)) =>
                /\ \A i \in 1..Len(lightnessSteps) :
                       scheme.shades[i] =
                           ShadeOfHue(Get(analysis), scheme, i,
                                      ZoneRuleHue(lightnessSteps[i], scheme.analysis))
                /\ DLessEq(FromHighlight(scheme, 1), HueTolerance)
                /\ NearOnCircle(ZoneRuleHue(lightnessSteps[10], scheme.analysis),
                                NormalHue(Get(scheme.analysis.shadowHue)))
                /\ NeverFalls(DistancesFromHighlight(scheme))

\* the colord HSL of the members of an entry
MemberHsl(e) == [i \in 1..Len(e.colors) |-> toHsl(e.colors[i])]

\* the mean of a list of whole percents
MeanPct(values) == DDiv(DFromInt(SumSeq(values)), DFromInt(Len(values)))

\* C29: every member of a chromatic family's group has saturation >= 15
\* (a color below 15 is grouped as gray), so calculateAverageHSL never takes
\* its fallback for a group without chromatic members (reference hue, chroma
\* 50, lightness 50): the averages of every chromatic entry are computed
\* over all of its members.
C29_ChromaticGroupsHaveNoNeutralMember ==
    Analyzed =>
        \A e \in EntriesOf(Get(analysis)) :
            e.hue # "gray" =>
                /\ \A i \in 1..Len(e.colors) : MemberHsl(e)[i].s >= GrayThreshold
                /\ e.avgHue = calculateCircularMean([i \in 1..Len(e.colors) |-> MemberHsl(e)[i].h])
                /\ e.avgChroma = MeanPct([i \in 1..Len(e.colors) |-> MemberHsl(e)[i].s])
                /\ e.avgLightness = MeanPct([i \in 1..Len(e.colors) |-> MemberHsl(e)[i].l])
                /\ DGreaterEq(e.avgChroma, DFromInt(GrayThreshold))

\* C29 witness: a map with a color of saturation 15 and one of saturation 14
\* was analyzed: the first is the only member of a chromatic group, with its
\* own saturation as the group's chroma, the second is in the gray group.
C29_Witness ==
    /\ Analyzed
    /\ \E e \in EntriesOf(Get(analysis)) :
           /\ e.hue = "violet"
           /\ e.colors = << Hex(97,87,117) >>
           /\ e.avgChroma = DFromInt(15)
    /\ \E e \in EntriesOf(Get(analysis)) :
           /\ e.hue = "gray"
           /\ e.colors = << Hex(122,110,145) >>

\* all members of an entry are in one lightness zone
InOneZone(e) == Len(PopulatedZones(e)) = 1

\* the schemes generated when a map is analyzed without multi-zone mode
SingleModeSchemes(data) == analyzeColorsForSchemeGeneration(data, Undefined, ModuleTables).generatedSchemes

\* a list of schemes has one of the family of a scheme, with the same shades
SameShadesIn(schemes, scheme) ==
    SelectSeq(schemes, LAMBDA s : s.hue = scheme.hue /\ s.shades = scheme.shades) # << >>

\* C30: in multi-zone mode, when all chromatic members of a group are in one
\* lightness zone, highlightHue, midtoneHue and shadowHue all equal the
\* group's avgHue after back-fill and blend, so three-zone interpolation is
\* not applied, and the shades of the scheme are those generated for the
\* same map with multi-zone mode disabled.
C30_OneZoneIsSingleHue ==
    (Analyzed /\ ConfigEnabled(tripleHueConfig)) =>
        \A scheme \in SchemesOf(Get(analysis)) :
            (scheme.hue # "gray" /\ InOneZone(scheme.analysis)) =>
                /\ scheme.analysis.highlightHue = Some(scheme.analysis.avgHue)
                /\ scheme.analysis.midtoneHue = Some(scheme.analysis.avgHue)
                /\ scheme.analysis.shadowHue = Some(scheme.analysis.avgHue)
                /\ ~UsedThreeZones(scheme)
                /\ SameShadesIn(SingleModeSchemes(colorData), scheme)
=============================================================================
